---- MODULE Spec2Model ----
(***************************************************************************)
(* AlderSync server: the exclusive-lock transaction manager, the staging   *)
(* area, the operation records and the file-revision store, as implemented *)
(* in Server/transactions.py, Server/routes/transactions_control.py,       *)
(* Server/routes/transactions_files.py, Server/routes/admin/operations.py, *)
(* Server/routes/status.py and Server/file_storage.py.                     *)
(*                                                                         *)
(* Every request handler is an `async def` without an await between its    *)
(* reads and writes of the shared state, so one handler is one action.     *)
(* Time is a clock `now` that advances in whole seconds.                   *)
(***************************************************************************)
EXTENDS Integers, Sequences, FiniteSets, TLC

\* ------------------------------------------------------------------ bounds
MaxTime == 2
MaxTxn == 2
MaxUploads == 2
MaxDeletes == 1
MaxTimeout == 2
MaxRevisionsSetting == 2

\* ------------------------------------------------------------ input sets
Users == {1, 2}
Paths == {"a.txt", "b.txt"}
Contents == {<<1>>}
TransactionIds == 1..MaxTxn

\* the paths asked for in downloads and deletions
StoredPaths == {"a.txt"}

\* the request values tried for operation_type and service_type; "Merge" and
\* "Modern" are values outside the enumerations, and the requests tried name
\* one of the two services
RequestOperationTypes == {"Pull", "Push", "Reconcile", "Merge"}
RequestServiceTypes == {"Contemporary", "Modern"}

\* faults of the environment (database or filesystem call raising)
BeginFaults == {"none", "settings", "operation_insert", "staging_mkdir"}

VARIABLES
    now,                 \* datetime.now(timezone.utc), in seconds
    current_lock,        \* transactions._current_lock
    active_transactions, \* transactions._active_transactions
    staging,             \* directories under STAGING_ROOT: id -> (path -> bytes)
    operations,          \* table operations, indexed by operation_id
    files,               \* table files: <<service, path, revision>> -> row
    blobs,               \* files under the storage root: disk path -> bytes
    changelists,         \* table changelists, indexed by changelist_id
    settings,            \* table settings
    user_role,           \* users.role of every user
    begin_responses,     \* TransactionBeginResponse sent for each transaction id
    user_rows,           \* table users: user_id -> row
    tokens,              \* the access tokens CreateAccessToken has encoded
    ignore_rows,         \* table ignore_patterns: the pattern of each row
    propresenter_folder, \* the client's folder: path -> bytes and mtime
    sync_operations,     \* the client's SyncOperations object
    upload_call          \* the upload_file call suspended at `await file.read`

vars == <<now, current_lock, active_transactions, staging, operations, files,
          blobs, changelists, settings, user_role, begin_responses,
          user_rows, tokens, ignore_rows,
          propresenter_folder, sync_operations, upload_call>>

\* ------------------------------------------------------------ constants
valid_operations == {"Pull", "Push", "Reconcile"}
valid_service_types == {"Contemporary", "Traditional"}
SERVICE_TYPES == {"Contemporary", "Traditional"}

NoLock == [user_id |-> 0, username |-> "", operation_type |-> "",
           locked_at_utc |-> 0, timeout_seconds |-> 0]
NoRev == -1
None == -1

\* SyncOperations.__init__: no transaction, no backup directory; the field
\* backup holds the files of the directory backup_path names
NewSyncOperations ==
    [transaction_id |-> None, backup_path |-> None, backup |-> <<>>]

\* no upload_file call is suspended
NoCall ==
    [transaction_id |-> 0, user_id |-> 0, path |-> "", remaining |-> <<>>,
     file |-> "", storage_file_path |-> <<>>, code |-> 0]

Username(user_id) == IF user_id = 1 THEN "alice" ELSE "bob"

\* password hashing: HashPassword salts and hashes, VerifyPassword hashes
\* the candidate with the stored salt and compares
HashPassword(password) == <<"bcrypt", password>>
VerifyPassword(password, password_hash) == password_hash = HashPassword(password)

\* an access token: the claims CreateAccessToken encodes, and whether the
\* signature verifies under SECRET_KEY
Token(user_id, username, exp, signed) ==
    [user_id |-> user_id, username |-> username, exp |-> exp, signed |-> signed]

NoUser == [user_id |-> 0, username |-> "", password_hash |-> <<"", "">>,
           is_active |-> FALSE, last_login |-> None]

\* the users the server starts with, their passwords set, never logged in
SeededUsers ==
    [u \in Users |-> [user_id |-> u, username |-> Username(u),
                      password_hash |-> HashPassword("pw1"),
                      is_active |-> TRUE, last_login |-> None]]

\* role -> permissions (tables roles, permissions, role_permissions)
RolePermissions(role) ==
    CASE role = "admin" -> {"admin"}
      [] role = "editor" -> {"can_pull", "can_push", "can_reconcile"}
      [] role = "viewer" -> {"can_pull"}
      [] OTHER -> {}

\* alice is an editor, bob a viewer
RoleAssignments == { [u \in Users |-> IF u = 1 THEN "editor" ELSE "viewer"] }

\* a lookup that grants every permission to every user
UserHasEveryPermission(user_id, permission_name) ==
    permission_name = permission_name /\ user_id \in Users

UserHasPermission(user_id, permission_name) ==
    LET user_permissions == RolePermissions(user_role[user_id])
    IN  IF "admin" \in user_permissions THEN TRUE
        ELSE permission_name \in user_permissions

\* ------------------------------------------------------------ functions
Put(f, k, v) == [x \in (DOMAIN f) \cup {k} |-> IF x = k THEN v ELSE f[x]]
Drop(f, k) == [x \in (DOMAIN f) \ {k} |-> f[x]]
EmptyMap == [x \in {} |-> 0]

\* ------------------------------------------------------------ lock
\* IsExpired with the comparison `>`: a lock lives one second too long
IsExpiredLate(lock, t) ==
    LET elapsed == t - lock.locked_at_utc
    IN  elapsed > lock.timeout_seconds

IsExpired(lock, t) ==
    LET elapsed == t - lock.locked_at_utc
    IN  elapsed >= lock.timeout_seconds

ElapsedSeconds(lock, t) == t - lock.locked_at_utc

\* the value GetCurrentLock returns, which is also the value it leaves in
\* _current_lock
GetCurrentLock(lock, t) ==
    IF lock = NoLock THEN NoLock
    ELSE IF IsExpired(lock, t) THEN NoLock
    ELSE lock

\* the values AcquireLock formats into its error message
NoMessage == [username |-> "", operation_type |-> "", elapsed |-> None]

\* AcquireLock without the check of the current lock
AcquireLockUnchecked(lock, t, user_id, username, operation_type, timeout_seconds) ==
    [success |-> TRUE,
     lock |-> [user_id |-> user_id, username |-> username,
               operation_type |-> operation_type, locked_at_utc |-> t,
               timeout_seconds |-> timeout_seconds],
     error_msg |-> NoMessage]

AcquireLock(lock, t, user_id, username, operation_type, timeout_seconds) ==
    LET cur == GetCurrentLock(lock, t)
    IN  IF cur # NoLock
        THEN [success |-> FALSE, lock |-> cur,
              error_msg |-> [username |-> cur.username,
                             operation_type |-> cur.operation_type,
                             elapsed |-> ElapsedSeconds(cur, t)]]
        ELSE [success |-> TRUE,
              lock |-> [user_id |-> user_id, username |-> username,
                        operation_type |-> operation_type,
                        locked_at_utc |-> t,
                        timeout_seconds |-> timeout_seconds],
              error_msg |-> NoMessage]

ReleaseLock(lock) == NoLock

\* ------------------------------------------------------------ responses
\* an HTTP response: status code, detail text, the values formatted into the
\* detail, the "error" key of the JSON body (an HTTPException body has only
\* "detail"), and the fields of the response models
Response(code, detail) ==
    [code |-> code, detail |-> detail, message |-> NoMessage, error |-> "",
     body |-> <<>>,
     file_hash |-> None, size |-> None, files_total |-> None,
     transaction_id |-> None, timeout_seconds |-> None]

\* ------------------------------------------------------------ file storage
\* a disk path under the storage root: <<service, relative path, revision>>;
\* GetFilePath gives the path without a revision number in the file name
GetFilePath(relative_path, service_type) == <<service_type, relative_path, NoRev>>

GetRevisionPath(relative_path, revision, service_type) ==
    <<service_type, relative_path, revision>>

\* SHA-256 of the bytes, modelled by a positional code of the byte sequence
RECURSIVE HashCode(_, _)
HashCode(bytes, acc) ==
    IF bytes = <<>> THEN acc
    ELSE HashCode(Tail(bytes), (acc * 31 + Head(bytes)) % 65536)

CalculateFileHash(bytes) == HashCode(bytes, 7)

StatSize(bytes) == Len(bytes)

Max(S) == CHOOSE x \in S : \A y \in S : y <= x

NoRow == [file_hash |-> None, size |-> None, is_deleted |-> FALSE,
          last_modified_utc |-> None, user_id |-> None, changelist_id |-> None,
          revision |-> NoRev]

RevisionsOf(f, relative_path, service_type) ==
    { k[3] : k \in { x \in DOMAIN f : x[1] = service_type /\ x[2] = relative_path } }

\* an upsert that drops the hash it is given
StoreFileMetadataWithoutHash(f, relative_path, service_type, file_hash, size, modified_utc, revision, is_deleted, user_id, changelist_id) ==
    Put(f, <<service_type, relative_path, revision>>,
        [file_hash |-> None, size |-> size, is_deleted |-> is_deleted,
         last_modified_utc |-> modified_utc, user_id |-> user_id,
         changelist_id |-> changelist_id, revision |-> revision])

StoreFileMetadata(f, relative_path, service_type, file_hash, size, modified_utc, revision, is_deleted, user_id, changelist_id) ==
    Put(f, <<service_type, relative_path, revision>>,
        [file_hash |-> file_hash, size |-> size, is_deleted |-> is_deleted,
         last_modified_utc |-> modified_utc, user_id |-> user_id,
         changelist_id |-> changelist_id, revision |-> revision])

GetFileMetadata(f, relative_path, service_type, revision) ==
    IF <<service_type, relative_path, revision>> \in DOMAIN f
    THEN f[<<service_type, relative_path, revision>>]
    ELSE NoRow

\* a numbering that gives out the highest number again
GetLastRevisionNumber(f, relative_path, service_type) ==
    LET revs == RevisionsOf(f, relative_path, service_type)
    IN  IF revs = {} THEN 0 ELSE Max(revs)

GetNextRevisionNumber(f, relative_path, service_type) ==
    LET revs == RevisionsOf(f, relative_path, service_type)
    IN  IF revs = {} THEN 0 ELSE Max(revs) + 1

\* the row of the highest revision of a path (order_by(revision.desc()).first())
CurrentRecord(f, relative_path, service_type) ==
    LET revs == RevisionsOf(f, relative_path, service_type)
    IN  IF revs = {} THEN NoRow
        ELSE f[<<service_type, relative_path, Max(revs)>>]

\* the ignore_patterns table is empty, so FilterIgnoredFiles returns its input
ListFiles(f, service_type, include_deleted) ==
    LET paths == { k[2] : k \in { x \in DOMAIN f : x[1] = service_type } }
    IN  { p \in paths :
            include_deleted \/ ~CurrentRecord(f, p, service_type).is_deleted }

CleanupOldRevisions(f, b, relative_path, service_type, max_revisions) ==
    LET old_revisions == { r \in RevisionsOf(f, relative_path, service_type) : r > 0 }
        revisions_to_delete ==
            IF Cardinality(old_revisions) > max_revisions
            THEN { r \in old_revisions :
                     Cardinality({ q \in old_revisions : q > r }) >= max_revisions }
            ELSE {}
        gone == { GetRevisionPath(relative_path, r, service_type) :
                     r \in revisions_to_delete }
    IN  [files |-> [k \in (DOMAIN f) \ gone |-> f[k]],
         blobs |-> [k \in (DOMAIN b) \ gone |-> b[k]]]

\* CreateRevision: copies the blob of the highest revision to the next
\* revision number and stores a row for it; raises when the path has no row
CreateRevision(f, b, relative_path, service_type, max_revisions) ==
    LET rec == CurrentRecord(f, relative_path, service_type)
        new_revision_number == GetNextRevisionNumber(f, relative_path, service_type)
        current_file_path == GetRevisionPath(relative_path, rec.revision, service_type)
        new_revision_file_path ==
            GetRevisionPath(relative_path, new_revision_number, service_type)
        b1 == IF current_file_path \in DOMAIN b
              THEN Put(b, new_revision_file_path, b[current_file_path])
              ELSE b
        f1 == StoreFileMetadata(f, relative_path, service_type, rec.file_hash,
                                rec.size, rec.last_modified_utc,
                                new_revision_number, rec.is_deleted, rec.user_id,
                                None)
    IN  IF rec = NoRow
        THEN [files |-> f, blobs |-> b, raised |-> TRUE]
        ELSE [files |-> CleanupOldRevisions(f1, b1, relative_path, service_type,
                                            max_revisions).files,
              blobs |-> CleanupOldRevisions(f1, b1, relative_path, service_type,
                                            max_revisions).blobs,
              raised |-> FALSE]

\* DeleteFile reads and rewrites the row of revision 0
DeleteFile(f, b, relative_path, service_type, t, max_revisions) ==
    LET current_metadata == GetFileMetadata(f, relative_path, service_type, 0)
        current_file_path == GetFilePath(relative_path, service_type)
        archived == IF current_file_path \in DOMAIN b
                    THEN CreateRevision(f, b, relative_path, service_type, max_revisions)
                    ELSE [files |-> f, blobs |-> b, raised |-> FALSE]
    IN  IF current_metadata = NoRow THEN [files |-> f, blobs |-> b]
        ELSE IF current_metadata.is_deleted THEN [files |-> f, blobs |-> b]
        ELSE IF archived.raised THEN [files |-> f, blobs |-> b]
        ELSE [files |-> StoreFileMetadata(archived.files, relative_path,
                            service_type, None, None, t, 0, TRUE,
                            current_metadata.user_id, None),
              blobs |-> archived.blobs]

\* ------------------------------------------------------------ reconcile planner
\* client_files is the request's dictionary in insertion order: a sequence of
\* [path, modified_utc, size, hash] with distinct paths
ClientPaths(client_files) == { client_files[i].path : i \in 1..Len(client_files) }

\* a comparison in which a tie of the modification times favours the client
CompareOneTiesToClient(client_meta, server_meta) ==
    LET server_mtime == server_meta.last_modified_utc
        client_mtime == client_meta.modified_utc
        d == server_mtime - client_mtime
        time_diff == IF d < 0 THEN -d ELSE d
    IN  IF time_diff > 1
        THEN (IF server_mtime > client_mtime THEN "pull" ELSE "push")
        ELSE IF client_meta.size # server_meta.size
                \/ client_meta.hash # server_meta.file_hash
        THEN (IF server_mtime > client_mtime THEN "pull" ELSE "push")
        ELSE "none"

\* the decision for a path present on both sides
CompareOne(client_meta, server_meta) ==
    LET server_mtime == server_meta.last_modified_utc
        client_mtime == client_meta.modified_utc
        d == server_mtime - client_mtime
        time_diff == IF d < 0 THEN -d ELSE d
    IN  IF time_diff > 1
        THEN (IF server_mtime > client_mtime THEN "pull" ELSE "push")
        ELSE IF client_meta.size # server_meta.size
        THEN (IF server_mtime >= client_mtime THEN "pull" ELSE "push")
        ELSE IF client_meta.hash # server_meta.file_hash
        THEN (IF server_mtime >= client_mtime THEN "pull" ELSE "push")
        ELSE "none"

Decision(f, client_meta, service_type) ==
    IF client_meta.path \in ListFiles(f, service_type, FALSE)
    THEN CompareOne(client_meta, CurrentRecord(f, client_meta.path, service_type))
    ELSE "push"

RECURSIVE SetToSeq(_)
SetToSeq(S) ==
    IF S = {} THEN <<>>
    ELSE LET x == CHOOSE y \in S : TRUE IN <<x>> \o SetToSeq(S \ {x})

RECURSIVE PathsDecided(_, _, _, _)
PathsDecided(f, client_files, service_type, what) ==
    IF client_files = <<>> THEN <<>>
    ELSE (IF Decision(f, Head(client_files), service_type) = what
          THEN <<Head(client_files).path>> ELSE <<>>)
         \o PathsDecided(f, Tail(client_files), service_type, what)

\* a planner that pulls every server file, seen on the client or not
CompareFilesPullingAll(f, client_files, service_type) ==
    [files_to_pull |-> PathsDecided(f, client_files, service_type, "pull")
                         \o SetToSeq(ListFiles(f, service_type, FALSE)),
     files_to_push |-> PathsDecided(f, client_files, service_type, "push")]

CompareFilesForReconcile(f, client_files, service_type) ==
    LET server_only_files == ListFiles(f, service_type, FALSE) \ ClientPaths(client_files)
    IN  [files_to_pull |-> PathsDecided(f, client_files, service_type, "pull")
                             \o SetToSeq(server_only_files),
         files_to_push |-> PathsDecided(f, client_files, service_type, "push")]

RECURSIVE SumSizes(_, _)
SumSizes(paths, size_of) ==
    IF paths = <<>> THEN 0
    ELSE size_of[Head(paths)] + SumSizes(Tail(paths), size_of)

BytesPerMB == 1024 * 1024

\* int((total_size_bytes / (1024 * 1024)) + (total_file_count * 2))
CalculatedTimeout(f, client_files, service_type, plan) ==
    LET total_file_count == Len(plan.files_to_pull) + Len(plan.files_to_push)
        server_size == [p \in Paths |->
            IF p \in ListFiles(f, service_type, FALSE)
            THEN CurrentRecord(f, p, service_type).size ELSE 0]
        client_size == [p \in Paths |->
            IF \E i \in 1..Len(client_files) : client_files[i].path = p
            THEN client_files[CHOOSE i \in 1..Len(client_files) :
                                 client_files[i].path = p].size
            ELSE 0]
        total_size_bytes == SumSizes(plan.files_to_pull, server_size)
                            + SumSizes(plan.files_to_push, client_size)
    IN  (total_size_bytes + total_file_count * 2 * BytesPerMB) \div BytesPerMB

\* the smaller of the two
MinOf(a, b) == IF a <= b THEN a ELSE b

MaxOf(a, b) == IF a >= b THEN a ELSE b

\* ------------------------------------------------------------ handlers
\* The shared state a handler reads and writes.  A handler is an operator
\* from the state and the request to its outcome: the response it returns and
\* the state it leaves.
Server ==
    [now |-> now, settings |-> settings, lock |-> current_lock,
     txns |-> active_transactions, staging |-> staging, ops |-> operations,
     files |-> files, blobs |-> blobs, cls |-> changelists,
     begun |-> begin_responses]

Outcome(response, server) == [resp |-> response, srv |-> server]

\* ------------------------------------------------------------ begin
NoPlan == [files_to_pull |-> <<>>, files_to_push |-> <<>>]

CreateTransaction(transaction_id, user_id, username, operation_type, service_type, operation_id, plan) ==
    [transaction_id |-> transaction_id, user_id |-> user_id,
     username |-> username, operation_type |-> operation_type,
     service_type |-> service_type, operation_id |-> operation_id,
     files_to_pull |-> plan.files_to_pull, files_to_push |-> plan.files_to_push,
     uploaded_files |-> <<>>, deleted_files |-> <<>>]

NewOperation(user_id, operation_type, service_type, t) ==
    [user_id |-> user_id, operation_type |-> operation_type,
     service_type |-> service_type, locked_at_utc |-> t, status |-> "active"]

\* the `except Exception` branch of begin_transaction: ReleaseLock(), 500
BeginFailed(s, ops) ==
    Outcome(Response(500, "Failed to begin transaction"),
            [s EXCEPT !.lock = ReleaseLock(s.lock), !.ops = ops])

begin_transaction(s, user_id, operation_type, service_type, client_files, fault) ==
    LET plan == IF operation_type = "Reconcile"
                THEN CompareFilesForReconcile(s.files, client_files, service_type)
                ELSE NoPlan
        timeout_seconds ==
            IF operation_type = "Reconcile"
            THEN MaxOf(s.settings.min_lock_timeout_seconds,
                       CalculatedTimeout(s.files, client_files, service_type, plan))
            ELSE s.settings.lock_timeout_seconds
        acquired == AcquireLock(s.lock, s.now, user_id, Username(user_id),
                                operation_type, timeout_seconds)
        operation_id == Len(s.ops) + 1
        \* uuid.uuid4(): a token no earlier transaction has
        transaction_id == Len(s.ops) + 1
        new_ops == Append(s.ops,
                          NewOperation(user_id, operation_type, service_type, s.now))
    IN
    IF operation_type \notin valid_operations
    THEN Outcome(Response(400, "Invalid operation_type"), s)
    ELSE IF service_type \notin valid_service_types
    THEN Outcome(Response(400, "Invalid service_type"), s)
    ELSE IF operation_type = "Push" /\ ~UserHasPermission(user_id, "can_push")
    THEN Outcome(Response(403, "no permission to perform Push operations"), s)
    ELSE IF operation_type = "Reconcile"
            /\ ~UserHasPermission(user_id, "can_reconcile")
    THEN Outcome(Response(403, "no permission to perform Reconcile operations"),
                 s)
    ELSE IF fault = "settings"
    THEN BeginFailed(s, s.ops)
    ELSE IF operation_type = "Reconcile" /\ client_files = <<>>
    THEN Outcome(Response(400, "client_files is required"), s)
    ELSE IF ~acquired.success
    THEN Outcome([Response(409, "Server is busy") EXCEPT
                     !.message = acquired.error_msg],
                 [s EXCEPT !.lock = acquired.lock])
    ELSE IF fault = "operation_insert"
    THEN BeginFailed(s, s.ops)
    ELSE IF fault = "staging_mkdir"
    THEN BeginFailed(s, new_ops)
    ELSE Outcome([Response(200, "") EXCEPT !.transaction_id = transaction_id,
                                           !.timeout_seconds = timeout_seconds],
                 [s EXCEPT
                    !.lock = acquired.lock,
                    !.ops = new_ops,
                    !.staging = Put(s.staging, transaction_id, EmptyMap),
                    !.txns = Put(s.txns, transaction_id,
                                 CreateTransaction(transaction_id, user_id,
                                     Username(user_id), operation_type,
                                     service_type, operation_id, plan)),
                    !.begun = Put(s.begun, transaction_id,
                                  [transaction_id |-> transaction_id,
                                   lock_acquired |-> TRUE,
                                   timeout_seconds |-> timeout_seconds])])

\* ------------------------------------------------------------ transactions
NoTransaction == CreateTransaction(0, 0, "", "", "", 0, NoPlan)

GetTransaction(txns, transaction_id) ==
    IF transaction_id \in DOMAIN txns
    THEN txns[transaction_id]
    ELSE NoTransaction

IsTransactionCancelled(s, transaction_id) ==
    IF transaction_id \notin DOMAIN s.txns THEN FALSE
    ELSE LET operation_id == s.txns[transaction_id].operation_id
         IN  /\ operation_id \in DOMAIN s.ops
             /\ s.ops[operation_id].status = "cancelled_by_admin"

\* faults a commit can meet: [step, at]; `at` is the position in uploaded_files
NoFault == [step |-> "none", at |-> 0]
CommitFaults ==
    {NoFault, [step |-> "operation_update", at |-> 0],
     [step |-> "last_operation", at |-> 0], [step |-> "changelist", at |-> 0]}
    \cup { [step |-> s, at |-> k] : s \in {"move", "metadata"}, k \in 1..MaxUploads }

RECURSIVE CommitDeletes(_, _, _, _, _)
CommitDeletes(st, paths, service_type, t, max_revisions) ==
    IF paths = <<>> THEN st
    ELSE CommitDeletes(DeleteFile(st.files, st.blobs, Head(paths), service_type,
                                  t, max_revisions),
                       Tail(paths), service_type, t, max_revisions)

\* the loop "Move files from staging to storage" of CommitTransaction;
\* st = [files, blobs, staged]; an exception leaves the loop
RECURSIVE CommitUploads(_, _, _, _, _, _)
CommitUploads(st, transaction, i, changelist_id, fault, t) ==
    IF i > Len(transaction.uploaded_files) THEN st
    ELSE
    LET relative_path == transaction.uploaded_files[i]
        service_type == transaction.service_type
        next_revision == GetNextRevisionNumber(st.files, relative_path, service_type)
        storage_file_path == GetRevisionPath(relative_path, next_revision, service_type)
        moved == [st EXCEPT
                    !.blobs = Put(st.blobs, storage_file_path, st.staged[relative_path]),
                    !.staged = Drop(st.staged, relative_path)]
        file_hash == CalculateFileHash(moved.blobs[storage_file_path])
        file_size == StatSize(moved.blobs[storage_file_path])
        stored == [moved EXCEPT
                    !.files = StoreFileMetadata(moved.files, relative_path,
                                  service_type, file_hash, file_size, t,
                                  next_revision, FALSE, transaction.user_id,
                                  changelist_id)]
    IN  IF relative_path \notin DOMAIN st.staged
        THEN CommitUploads(st, transaction, i + 1, changelist_id, fault, t)
        ELSE IF fault = [step |-> "move", at |-> i] THEN st
        ELSE IF fault = [step |-> "metadata", at |-> i] THEN moved
        ELSE CommitUploads(stored, transaction, i + 1, changelist_id, fault, t)

\* CommitTransaction for a transaction of the active map.  Whatever happens in
\* its try block it removes the staging area, drops the transaction, releases
\* the lock and returns True.
CommitTransaction(server, transaction, fault, t) ==
    LET with_changelist ==
            transaction.uploaded_files # <<>> /\ fault.step # "changelist"
        cls == IF with_changelist
               THEN Append(server.cls,
                           [user_id |-> transaction.user_id,
                            operation_type |-> transaction.operation_type])
               ELSE server.cls
        changelist_id == IF with_changelist THEN Len(cls) ELSE None
        staged == IF transaction.transaction_id \in DOMAIN server.staging
                  THEN server.staging[transaction.transaction_id] ELSE EmptyMap
        deleted == CommitDeletes([files |-> server.files, blobs |-> server.blobs],
                                 transaction.deleted_files,
                                 transaction.service_type, t,
                                 server.settings.max_revisions)
        uploaded == CommitUploads([files |-> deleted.files, blobs |-> deleted.blobs,
                                   staged |-> staged],
                                  transaction, 1, changelist_id, fault, t)
    IN  [server EXCEPT
            !.files = uploaded.files,
            !.blobs = uploaded.blobs,
            !.cls = cls,
            !.staging = Drop(server.staging, transaction.transaction_id),
            !.txns = Drop(server.txns, transaction.transaction_id),
            !.lock = ReleaseLock(server.lock)]

\* a rollback that publishes what the transaction staged and marked
RollbackPublishing(server, transaction) ==
    CommitTransaction(server, transaction, NoFault, server.now)

RollbackTransaction(server, transaction) ==
    [server EXCEPT
        !.staging = Drop(server.staging, transaction.transaction_id),
        !.txns = Drop(server.txns, transaction.transaction_id),
        !.lock = ReleaseLock(server.lock)]

SetStatus(ops, operation_id, status) ==
    IF operation_id \in DOMAIN ops
    THEN [ops EXCEPT ![operation_id].status = status]
    ELSE ops

commit_transaction(s, user_id, transaction_id, fault) ==
    LET transaction == GetTransaction(s.txns, transaction_id)
        updated == [s EXCEPT
                      !.ops = SetStatus(s.ops, transaction.operation_id,
                                        "completed")]
    IN
    IF transaction = NoTransaction
    THEN Outcome(Response(404, "Transaction not found"), s)
    ELSE IF IsTransactionCancelled(s, transaction_id)
    THEN Outcome(Response(409, "Operation cancelled by administrator"), s)
    ELSE IF transaction.user_id # user_id
    THEN Outcome(Response(403, "Cannot commit transaction from another user"),
                 s)
    ELSE IF fault.step = "operation_update"
    THEN Outcome(Response(500, "Failed to commit transaction"), s)
    ELSE IF fault.step = "last_operation"
    THEN Outcome(Response(500, "Failed to commit transaction"), updated)
    ELSE Outcome([Response(200, "") EXCEPT
                     !.files_total = Len(transaction.uploaded_files)],
                 CommitTransaction(updated, transaction, fault, s.now))

rollback_transaction(s, user_id, transaction_id, fault) ==
    LET transaction == GetTransaction(s.txns, transaction_id)
        updated == [s EXCEPT
                      !.ops = SetStatus(s.ops, transaction.operation_id,
                                        "rolled_back")]
    IN
    IF transaction = NoTransaction
    THEN Outcome(Response(404, "Transaction not found"), s)
    ELSE IF transaction.user_id # user_id
    THEN Outcome(Response(403, "Cannot rollback transaction from another user"),
                 s)
    ELSE IF fault.step = "operation_update"
    THEN Outcome(Response(500, "Failed to rollback transaction"), s)
    ELSE Outcome(Response(200, ""), RollbackTransaction(updated, transaction))

\* ------------------------------------------------------------ file endpoints
upload_file(s, user_id, transaction_id, path, bytes) ==
    LET transaction == GetTransaction(s.txns, transaction_id)
        \* staged_file_path.parent.mkdir(parents=True, exist_ok=True)
        dir == IF transaction_id \in DOMAIN s.staging
               THEN s.staging[transaction_id] ELSE EmptyMap
        staged == Put(dir, path, bytes)
    IN
    IF transaction = NoTransaction
    THEN Outcome(Response(404, "Transaction not found"), s)
    ELSE IF IsTransactionCancelled(s, transaction_id)
    THEN Outcome(Response(409, "Operation cancelled by administrator"), s)
    ELSE IF transaction.user_id # user_id
    THEN Outcome(Response(403, "Cannot upload to transaction from another user"),
                 s)
    ELSE Outcome([Response(200, "") EXCEPT
                     !.file_hash = CalculateFileHash(staged[path]),
                     !.size = StatSize(staged[path])],
                 [s EXCEPT
                     !.staging = Put(s.staging, transaction_id, staged),
                     !.txns = [s.txns EXCEPT
                                 ![transaction_id].uploaded_files = Append(@, path)]])

download_file_in_transaction(s, user_id, transaction_id, path) ==
    LET transaction == GetTransaction(s.txns, transaction_id)
        file_record == CurrentRecord(s.files, path, transaction.service_type)
        file_path == GetRevisionPath(path, file_record.revision,
                                     transaction.service_type)
    IN
    IF transaction = NoTransaction
    THEN Outcome(Response(404, "Transaction not found"), s)
    ELSE IF IsTransactionCancelled(s, transaction_id)
    THEN Outcome(Response(409, "Operation cancelled by administrator"), s)
    ELSE IF transaction.user_id # user_id
    THEN Outcome(Response(403,
                     "Cannot download file from transaction of another user"),
                 s)
    ELSE IF file_record = NoRow
    THEN Outcome(Response(404, "File not found"), s)
    ELSE IF file_record.is_deleted
    THEN Outcome(Response(404, "File has been deleted"), s)
    ELSE IF file_path \notin DOMAIN s.blobs
    THEN Outcome(Response(404, "File not found"), s)
    ELSE Outcome([Response(200, "") EXCEPT !.body = s.blobs[file_path]], s)

\* a delete that marks the path whoever asks
delete_file_of_any_user(s, user_id, transaction_id, path) ==
    IF transaction_id \notin DOMAIN s.txns \/ user_id \notin Users
    THEN Outcome(Response(404, "Transaction not found"), s)
    ELSE Outcome(Response(200, ""),
                 [s EXCEPT
                     !.txns = [s.txns EXCEPT
                                 ![transaction_id].deleted_files = Append(@, path)]])

delete_file(s, user_id, transaction_id, path) ==
    LET transaction == GetTransaction(s.txns, transaction_id)
    IN
    IF transaction = NoTransaction
    THEN Outcome(Response(404, "Transaction not found"), s)
    ELSE IF transaction.user_id # user_id
    THEN Outcome(Response(403,
                     "Cannot delete file in transaction from another user"),
                 s)
    ELSE Outcome(Response(200, ""),
                 [s EXCEPT
                     !.txns = [s.txns EXCEPT
                                 ![transaction_id].deleted_files = Append(@, path)]])

\* GET /files/list: the current version of every path that is not deleted
list_files(s, service_type) ==
    IF service_type \notin valid_service_types
    THEN Outcome([code |-> 400, detail |-> "Invalid service_type", files |-> {}], s)
    ELSE Outcome([code |-> 200, detail |-> "",
                  files |-> { [path |-> p,
                               size |-> CurrentRecord(s.files, p, service_type).size,
                               hash |-> CurrentRecord(s.files, p, service_type).file_hash,
                               modified_utc |-> CurrentRecord(s.files, p,
                                                   service_type).last_modified_utc] :
                              p \in ListFiles(s.files, service_type, FALSE) }],
                 s)

\* GET /files/download: the blob of the highest revision of the path
download_file(s, path, service_type) ==
    LET file_record == CurrentRecord(s.files, path, service_type)
        file_path == GetRevisionPath(path, file_record.revision, service_type)
    IN
    IF service_type \notin valid_service_types
    THEN Outcome(Response(400, "Invalid service_type"), s)
    ELSE IF file_record = NoRow
    THEN Outcome(Response(404, "File not found"), s)
    ELSE IF file_record.is_deleted
    THEN Outcome(Response(404, "File has been deleted"), s)
    ELSE IF file_path \notin DOMAIN s.blobs
    THEN Outcome(Response(500, "File metadata exists but file is missing on disk"),
                 s)
    ELSE Outcome([Response(200, "") EXCEPT !.body = s.blobs[file_path]], s)

\* a restore that copies the requested revision without archiving the
\* current version first
restore_without_archive(s, user_id, path, revision, service_type) ==
    LET file_revisions == RevisionsOf(s.files, path, service_type)
        revision_file_path == GetRevisionPath(path, revision, service_type)
        restore_revision == GetNextRevisionNumber(s.files, path, service_type)
        restore_file_path == GetRevisionPath(path, restore_revision, service_type)
        b2 == Put(s.blobs, restore_file_path, s.blobs[revision_file_path])
        f2 == StoreFileMetadata(s.files, path, service_type,
                                CalculateFileHash(b2[restore_file_path]),
                                StatSize(b2[restore_file_path]), s.now,
                                restore_revision, FALSE, user_id, None)
    IN
    IF file_revisions = {} \/ revision \notin file_revisions
       \/ revision_file_path \notin DOMAIN s.blobs
    THEN Outcome(Response(404, "Revision not found"), s)
    ELSE IF revision = Max(file_revisions)
    THEN Outcome(Response(400, "already the current version"), s)
    ELSE Outcome(Response(200, ""), [s EXCEPT !.files = f2, !.blobs = b2])

\* POST /files/restore_revision: archives the current version as the next
\* revision, then copies the requested revision to the revision after it
restore_file_revision(s, user_id, path, revision, service_type) ==
    LET file_revisions == RevisionsOf(s.files, path, service_type)
        current_revision == Max(file_revisions)
        revision_file_path == GetRevisionPath(path, revision, service_type)
        archive_revision == GetNextRevisionNumber(s.files, path, service_type)
        current_file_path == GetRevisionPath(path, current_revision, service_type)
        archive_file_path == GetRevisionPath(path, archive_revision, service_type)
        current_record == GetFileMetadata(s.files, path, service_type,
                                          current_revision)
        b1 == Put(s.blobs, archive_file_path, s.blobs[current_file_path])
        f1 == StoreFileMetadata(s.files, path, service_type,
                                CalculateFileHash(b1[archive_file_path]),
                                StatSize(b1[archive_file_path]),
                                current_record.last_modified_utc,
                                archive_revision, FALSE, current_record.user_id,
                                None)
        restore_revision == GetNextRevisionNumber(f1, path, service_type)
        restore_file_path == GetRevisionPath(path, restore_revision, service_type)
        b2 == Put(b1, restore_file_path, b1[revision_file_path])
        f2 == StoreFileMetadata(f1, path, service_type,
                                CalculateFileHash(b2[restore_file_path]),
                                StatSize(b2[restore_file_path]), s.now,
                                restore_revision, FALSE, user_id, None)
    IN
    IF service_type \notin valid_service_types
    THEN Outcome(Response(400, "Invalid service_type"), s)
    ELSE IF revision < 0
    THEN Outcome(Response(400, "Revision number must be >= 0"), s)
    ELSE IF file_revisions = {}
    THEN Outcome(Response(404, "File not found"), s)
    ELSE IF revision = current_revision
    THEN Outcome(Response(400, "already the current version"), s)
    ELSE IF revision \notin file_revisions
    THEN Outcome(Response(404, "Revision not found"), s)
    ELSE IF revision_file_path \notin DOMAIN s.blobs
    THEN Outcome(Response(500, "Revision file is missing on disk"), s)
    ELSE IF current_file_path \notin DOMAIN s.blobs
    THEN Outcome(Response(500, "Failed to archive current version"), s)
    ELSE Outcome(Response(200, ""), [s EXCEPT !.files = f2, !.blobs = b2])

\* the first insert of restore_file_revision: the current version, read at
\* the start of the handler as current_revision, is copied to the next free
\* revision number, computed now
RestoreArchive(s, path, current_revision, service_type) ==
    LET archive_revision == GetNextRevisionNumber(s.files, path, service_type)
        current_file_path == GetRevisionPath(path, current_revision, service_type)
        archive_file_path == GetRevisionPath(path, archive_revision, service_type)
        current_record == GetFileMetadata(s.files, path, service_type,
                                          current_revision)
        b1 == Put(s.blobs, archive_file_path, s.blobs[current_file_path])
    IN  [s EXCEPT
           !.blobs = b1,
           !.files = StoreFileMetadata(s.files, path, service_type,
                         CalculateFileHash(b1[archive_file_path]),
                         StatSize(b1[archive_file_path]),
                         current_record.last_modified_utc, archive_revision,
                         FALSE, current_record.user_id, None)]

\* the second insert: the requested revision is copied to the next free
\* revision number, computed afresh
RestoreCopy(s, user_id, path, revision, service_type) ==
    LET revision_file_path == GetRevisionPath(path, revision, service_type)
        restore_revision == GetNextRevisionNumber(s.files, path, service_type)
        restore_file_path == GetRevisionPath(path, restore_revision, service_type)
        b2 == Put(s.blobs, restore_file_path, s.blobs[revision_file_path])
    IN  [s EXCEPT
           !.blobs = b2,
           !.files = StoreFileMetadata(s.files, path, service_type,
                         CalculateFileHash(b2[restore_file_path]),
                         StatSize(b2[restore_file_path]), s.now,
                         restore_revision, FALSE, user_id, None)]

\* ------------------------------------------------------------ status, admin
\* GET /status/lock: GetActiveLockInfo reads the lock through GetCurrentLock
get_lock_status(s) ==
    LET lock == GetCurrentLock(s.lock, s.now)
    IN  Outcome(IF lock = NoLock
                THEN Response(200, "unlocked")
                ELSE [Response(200, "locked") EXCEPT
                        !.message = [username |-> lock.username,
                                   operation_type |-> lock.operation_type,
                                   elapsed |-> ElapsedSeconds(lock, s.now)]],
                [s EXCEPT !.lock = lock])

\* POST /admin/api/operations/{transaction_id}/cancel: the handler evaluates
\* the name db_manager, which routes/admin/operations.py neither imports nor
\* defines; the NameError is caught by `except Exception` and answered with
\* 500 before CancelTransaction is entered
admin_cancel_operation(s, transaction_id) ==
    Outcome(Response(500, "Failed to cancel operation"), s)

\* ------------------------------------------------------------ specification
RECURSIVE SumOver(_, _)
SumOver(S, f) ==
    IF S = {} THEN 0
    ELSE LET x == CHOOSE y \in S : TRUE IN f[x] + SumOver(S \ {x}, f)

\* uploads and deletions recorded in the transactions of an active map
StagedUploads(txns) ==
    SumOver(DOMAIN txns, [t \in DOMAIN txns |-> Len(txns[t].uploaded_files)])

MarkedDeletes(txns) ==
    SumOver(DOMAIN txns, [t \in DOMAIN txns |-> Len(txns[t].deleted_files)])

Tombstones(f) == Cardinality({ k \in DOMAIN f : f[k].is_deleted })

\* the state a handler leaves becomes the state, within the model's bounds
Apply(o) ==
    /\ Len(o.srv.ops) <= MaxTxn
    /\ StagedUploads(o.srv.txns) + Cardinality(DOMAIN o.srv.blobs) <= MaxUploads
    /\ MarkedDeletes(o.srv.txns) + Tombstones(o.srv.files) <= MaxDeletes
    /\ current_lock' = o.srv.lock
    /\ active_transactions' = o.srv.txns
    /\ staging' = o.srv.staging
    /\ operations' = o.srv.ops
    /\ files' = o.srv.files
    /\ blobs' = o.srv.blobs
    /\ changelists' = o.srv.cls
    /\ begin_responses' = o.srv.begun
    /\ UNCHANGED <<now, settings, user_role, user_rows, tokens, ignore_rows,
          propresenter_folder, sync_operations, upload_call>>

SettingsChoices ==
    { [lock_timeout_seconds |-> MaxTimeout, min_lock_timeout_seconds |-> MaxTimeout,
       max_revisions |-> MaxRevisionsSetting] }

\* client inventories sent with a Reconcile begin
ClientEntries ==
    { [path |-> p, modified_utc |-> m, size |-> StatSize(c),
       hash |-> CalculateFileHash(c)] :
        p \in {"a.txt"}, m \in {MaxTime}, c \in {<<1>>} }

ClientInventories == {<<>>} \cup { <<e>> : e \in ClientEntries }

Init ==
    /\ now = 0
    /\ current_lock = NoLock
    /\ active_transactions = EmptyMap
    /\ staging = EmptyMap
    /\ operations = <<>>
    /\ files = EmptyMap
    /\ blobs = EmptyMap
    /\ changelists = <<>>
    /\ settings \in SettingsChoices
    /\ user_role \in RoleAssignments
    /\ begin_responses = EmptyMap
    /\ user_rows = SeededUsers
    /\ tokens = {}
    /\ ignore_rows = <<>>
    /\ propresenter_folder = EmptyMap
    /\ sync_operations = NewSyncOperations
    /\ upload_call = NoCall

\* the clock
Tick ==
    /\ now < MaxTime
    /\ now' = now + 1
    /\ UNCHANGED <<current_lock, active_transactions, staging, operations, files,
                   blobs, changelists, settings, user_role, begin_responses,
                   user_rows, tokens, ignore_rows,
          propresenter_folder, sync_operations, upload_call>>

\* the begin requests tried: alice, an editor, pushes and reconciles; bob, a
\* viewer, asks for every operation type; a request that passes the
\* permission check meets every fault; and one request names each value
\* outside the enumerations
BeginRequests ==
    { r \in [user_id : Users, operation_type : valid_operations,
             service_type : {"Contemporary"}, client_files : ClientInventories,
             fault : BeginFaults] :
        /\ r.operation_type = "Reconcile" \/ r.client_files = <<>>
        /\ r.user_id = 1 => r.operation_type # "Pull"
        /\ r.user_id = 2 /\ r.operation_type # "Pull" => r.fault = "none" }
    \cup { [user_id |-> 1, operation_type |-> "Merge",
            service_type |-> "Contemporary", client_files |-> <<>>,
            fault |-> "none"],
           [user_id |-> 1, operation_type |-> "Push",
            service_type |-> "Modern", client_files |-> <<>>,
            fault |-> "none"] }

Begin ==
    \E r \in BeginRequests :
        /\ Apply(begin_transaction(Server, r.user_id, r.operation_type,
                                   r.service_type, r.client_files, r.fault))

Upload ==
    \E user_id \in Users, transaction_id \in TransactionIds, path \in Paths,
       bytes \in Contents :
        /\ Apply(upload_file(Server, user_id, transaction_id, path, bytes))

Download ==
    \E user_id \in Users, transaction_id \in TransactionIds, path \in StoredPaths :
        /\ Apply(download_file_in_transaction(Server, user_id, transaction_id, path))

Delete ==
    \E user_id \in Users, transaction_id \in TransactionIds, path \in StoredPaths :
        /\ Apply(delete_file(Server, user_id, transaction_id, path))

\* a fault in the upload loop needs an upload at that position
CommitFaultsOf(transaction_id) ==
    { f \in CommitFaults : f.at <= Len(GetTransaction(active_transactions, transaction_id).uploaded_files) }

Commit ==
    \E user_id \in Users, transaction_id \in TransactionIds :
        \E fault \in CommitFaultsOf(transaction_id) :
            /\ Apply(commit_transaction(Server, user_id, transaction_id, fault))
    
Rollback ==
    \E user_id \in Users, transaction_id \in TransactionIds,
       fault \in {NoFault, [step |-> "operation_update", at |-> 0]} :
        /\ Apply(rollback_transaction(Server, user_id, transaction_id, fault))

LockStatus ==
    /\ Apply(get_lock_status(Server))

AdminCancel ==
    \E transaction_id \in TransactionIds :
        /\ Apply(admin_cancel_operation(Server, transaction_id))

Next ==
    \/ Tick
    \/ Begin
    \/ Upload
    \/ Download
    \/ Delete
    \/ Commit
    \/ Rollback
    \/ LockStatus
    \/ AdminCancel

Spec == Init /\ [][Next]_vars

\* ------------------------------------------------- the revision store alone
\* A second specification for the claims about revisions: one editor works
\* through transactions one after another, with two contents, more
\* transactions and more revisions than Spec affords, and with the
\* endpoints of routes/files.py.
StoreMaxTxn == 3
StoreMaxRows == 5
StoreMaxStaged == 2

StoreContents == {<<1>>, <<2>>}
StoreTransactionIds == 1..StoreMaxTxn
StoreRevisions == 0..StoreMaxRows
StoreCommitFaults ==
    {NoFault, [step |-> "move", at |-> 1], [step |-> "metadata", at |-> 1]}

StoreApply(o) ==
    /\ Len(o.srv.ops) <= StoreMaxTxn
    /\ \A t \in DOMAIN o.srv.txns :
          /\ Len(o.srv.txns[t].uploaded_files) <= StoreMaxStaged
          /\ Len(o.srv.txns[t].deleted_files) <= MaxDeletes
    /\ Cardinality(DOMAIN o.srv.files) <= StoreMaxRows
    /\ Cardinality(DOMAIN o.srv.blobs) <= StoreMaxRows
    /\ current_lock' = o.srv.lock
    /\ active_transactions' = o.srv.txns
    /\ staging' = o.srv.staging
    /\ operations' = o.srv.ops
    /\ files' = o.srv.files
    /\ blobs' = o.srv.blobs
    /\ changelists' = o.srv.cls
    /\ begin_responses' = o.srv.begun
    /\ UNCHANGED <<now, settings, user_role, user_rows, tokens, ignore_rows,
          propresenter_folder, sync_operations, upload_call>>

StoreBegin ==
    /\ StoreApply(begin_transaction(Server, 1, "Push", "Contemporary", <<>>, "none"))

StoreUpload ==
    \E transaction_id \in StoreTransactionIds, path \in StoredPaths,
       bytes \in StoreContents :
        /\ StoreApply(upload_file(Server, 1, transaction_id, path, bytes))

StoreDelete ==
    \E transaction_id \in StoreTransactionIds, path \in StoredPaths :
        /\ StoreApply(delete_file(Server, 1, transaction_id, path))

StoreCommit ==
    \E transaction_id \in StoreTransactionIds, fault \in StoreCommitFaults :
        /\ StoreApply(commit_transaction(Server, 1, transaction_id, fault))

StoreRollback ==
    \E transaction_id \in StoreTransactionIds :
        /\ StoreApply(rollback_transaction(Server, 1, transaction_id, NoFault))

StoreList ==
    \E service_type \in RequestServiceTypes :
        /\ StoreApply(list_files(Server, service_type))

StoreDownload ==
    \E path \in Paths, service_type \in RequestServiceTypes :
        /\ StoreApply(download_file(Server, path, service_type))

StoreRestore ==
    \E user_id \in Users, path \in StoredPaths, revision \in StoreRevisions :
        /\ StoreApply(restore_file_revision(Server, user_id, path, revision,
                                            "Contemporary"))

StoreNext ==
    \/ Tick
    \/ StoreBegin
    \/ StoreUpload
    \/ StoreDelete
    \/ StoreCommit
    \/ StoreRollback
    \/ StoreList
    \/ StoreDownload
    \/ StoreRestore

StoreSpec == Init /\ [][StoreNext]_vars

\* ------------------------------------------------- the reconcile planner
\* A third specification for the claims about CompareFilesForReconcile and
\* the Reconcile timeout: the server starts with any metadata for two paths
\* and the editor begins a Reconcile with any inventory.  A row's size is
\* drawn from PlannerSizes (files of megabytes are not spelt out byte for
\* byte); the planner reads the rows only.
PlannerMaxTime == 3

PlannerTimes == 0..PlannerMaxTime
PlannerSizes == {1, 3 * (BytesPerMB \div 2)}

\* the rows a path can have at revision 0: none, a version, a tombstone
PlannerRows ==
    { [file_hash |-> CalculateFileHash(c), size |-> z, is_deleted |-> FALSE,
       last_modified_utc |-> m, user_id |-> 1, changelist_id |-> 1,
       revision |-> 0] : c \in StoreContents, z \in PlannerSizes, m \in PlannerTimes }
    \cup { [NoRow EXCEPT !.is_deleted = TRUE, !.last_modified_utc = 0,
                         !.user_id = 1, !.revision = 0] }

PlannerStores ==
    UNION { [ { <<"Contemporary", p, 0>> : p \in S } -> PlannerRows ] :
              S \in SUBSET Paths }

PlannerEntries ==
    [path : Paths, modified_utc : PlannerTimes, size : PlannerSizes,
     hash : { CalculateFileHash(c) : c \in StoreContents }]

\* the inventory is a dict keyed by path: no path occurs twice
PlannerInventories ==
    {<<>>} \cup { <<e>> : e \in PlannerEntries }
    \cup { q \in { <<e1, e2>> : e1 \in PlannerEntries, e2 \in PlannerEntries } :
               q[1].path # q[2].path }

PlannerInit ==
    /\ now = 0
    /\ current_lock = NoLock
    /\ active_transactions = EmptyMap
    /\ staging = EmptyMap
    /\ operations = <<>>
    /\ files \in PlannerStores
    /\ blobs = [k \in DOMAIN files |->
                  IF files[k].file_hash = CalculateFileHash(<<1>>)
                  THEN <<1>> ELSE <<2>>]
    /\ changelists = <<[user_id |-> 1, operation_type |-> "Push"]>>
    /\ settings \in SettingsChoices
    /\ user_role \in RoleAssignments
    /\ begin_responses = EmptyMap
    /\ user_rows = SeededUsers
    /\ tokens = {}
    /\ ignore_rows = <<>>
    /\ propresenter_folder = EmptyMap
    /\ sync_operations = NewSyncOperations
    /\ upload_call = NoCall

PlannerBegin ==
    \E client_files \in PlannerInventories :
        /\ StoreApply(begin_transaction(Server, 1, "Reconcile", "Contemporary",
                                        client_files, "none"))

PlannerNext ==
    \/ PlannerBegin

PlannerSpec == PlannerInit /\ [][PlannerNext]_vars

\* ------------------------------------------------- authentication
AuthMaxUserId == 3
AuthMaxTokens == 2
AuthUsernames == {"alice", "bob"}
AuthPasswords == {"pw1", "pw2"}
\* jwt_expiration_hours of the settings, in seconds
JwtExpirationSeconds == 24 * 3600

\* the state the authentication code reads and writes
AuthState == [now |-> now, rows |-> user_rows, tokens |-> tokens]

AuthResponse(code, detail, www_authenticate) ==
    [code |-> code, detail |-> detail, www_authenticate |-> www_authenticate,
     token |-> Token(0, "", 0, FALSE), expires_in |-> 0]

\* session.query(User).filter(User.username == username).first()
UserByName(rows, username) ==
    IF \E u \in DOMAIN rows : rows[u].username = username
    THEN rows[CHOOSE u \in DOMAIN rows : rows[u].username = username]
    ELSE NoUser

UserById(rows, user_id) ==
    IF user_id \in DOMAIN rows THEN rows[user_id] ELSE NoUser

\* the user the credentials belong to and the rows left, or NoUser
AuthenticateUser(a, username, password) ==
    LET user == UserByName(a.rows, username)
    IN  IF user = NoUser THEN [user |-> NoUser, rows |-> a.rows]
        ELSE IF ~VerifyPassword(password, user.password_hash)
        THEN [user |-> NoUser, rows |-> a.rows]
        ELSE IF ~user.is_active THEN [user |-> NoUser, rows |-> a.rows]
        ELSE [user |-> [user EXCEPT !.last_login = a.now],
              rows |-> [a.rows EXCEPT ![user.user_id].last_login = a.now]]

CreateAccessToken(data, t) ==
    Token(data.user_id, data.username, t + JwtExpirationSeconds, TRUE)

login(a, username, password) ==
    LET found == AuthenticateUser(a, username, password)
        access_token == CreateAccessToken(found.user, a.now)
    IN  IF found.user = NoUser
        THEN Outcome(AuthResponse(401, "Incorrect username or password",
                                  "Bearer"), a)
        ELSE Outcome([AuthResponse(200, "", "") EXCEPT
                         !.token = access_token,
                         !.expires_in = JwtExpirationSeconds],
                     [a EXCEPT !.rows = found.rows,
                               !.tokens = a.tokens \cup {access_token}])

\* jwt.decode raises for a signature that does not verify and for an exp
\* in the past
DecodeAccessToken(token, t) ==
    IF ~token.signed \/ token.exp < t
    THEN [raised |-> TRUE,
          resp |-> AuthResponse(401, "Could not validate credentials", "Bearer")]
    ELSE [raised |-> FALSE, resp |-> AuthResponse(200, "", "")]

\* the dependency every authenticated route resolves first: the user of the
\* bearer token, or the response that ends the request
GetCurrentUser(a, credentials) ==
    LET token_data == DecodeAccessToken(credentials, a.now)
        user == UserById(a.rows, credentials.user_id)
    IN  IF token_data.raised THEN [user |-> NoUser, resp |-> token_data.resp]
        ELSE IF user = NoUser
        THEN [user |-> NoUser,
              resp |-> AuthResponse(401, "User not found", "Bearer")]
        ELSE IF ~user.is_active
        THEN [user |-> NoUser,
              resp |-> AuthResponse(401, "User account is disabled", "Bearer")]
        ELSE [user |-> user, resp |-> AuthResponse(200, "", "")]

\* the admin pages act under the session of the administrator
AdminSessionUsername == "admin"

admin_create_user(a, username, password) ==
    LET user_id == IF DOMAIN a.rows = {} THEN 1 ELSE Max(DOMAIN a.rows) + 1
    IN  IF UserByName(a.rows, username) # NoUser
        THEN Outcome(AuthResponse(400, "User already exists", ""), a)
        ELSE Outcome(AuthResponse(200, "User created successfully", ""),
                     [a EXCEPT !.rows = Put(a.rows, user_id,
                         [user_id |-> user_id, username |-> username,
                          password_hash |-> HashPassword(password),
                          is_active |-> TRUE, last_login |-> None])])

admin_update_user_status(a, username, is_active) ==
    LET user == UserByName(a.rows, username)
    IN  IF user = NoUser
        THEN Outcome(AuthResponse(404, "User not found", ""), a)
        ELSE IF username = AdminSessionUsername /\ ~is_active
        THEN Outcome(AuthResponse(400, "Cannot disable your own account", ""), a)
        ELSE Outcome(AuthResponse(200, "", ""),
                     [a EXCEPT !.rows[user.user_id].is_active = is_active])

admin_delete_user(a, user_id) ==
    LET user == UserById(a.rows, user_id)
    IN  IF user = NoUser
        THEN Outcome(AuthResponse(404, "User not found", ""), a)
        ELSE IF user.username = AdminSessionUsername
        THEN Outcome(AuthResponse(400, "Cannot delete your own account", ""), a)
        ELSE Outcome(AuthResponse(200, "User deleted successfully", ""),
                     [a EXCEPT !.rows = Drop(a.rows, user_id)])

\* the bearer credentials a request can carry: a token the server encoded,
\* or the same claims under a signature that does not verify
Credentials == tokens \cup { [k EXCEPT !.signed = FALSE] : k \in tokens }

AuthApply(o) ==
    /\ \A u \in DOMAIN o.srv.rows : u <= AuthMaxUserId
    /\ Cardinality(o.srv.tokens) <= AuthMaxTokens
    /\ user_rows' = o.srv.rows
    /\ tokens' = o.srv.tokens
    /\ UNCHANGED <<now, current_lock, active_transactions, staging, operations,
                   files, blobs, changelists, settings, user_role,
                   begin_responses, ignore_rows,
          propresenter_folder, sync_operations, upload_call>>

\* the server starts with its seeded users; alice holds a token of an
\* earlier login that expires at time 1
AuthInit ==
    /\ now = 0
    /\ current_lock = NoLock
    /\ active_transactions = EmptyMap
    /\ staging = EmptyMap
    /\ operations = <<>>
    /\ files = EmptyMap
    /\ blobs = EmptyMap
    /\ changelists = <<>>
    /\ settings \in SettingsChoices
    /\ user_role \in RoleAssignments
    /\ begin_responses = EmptyMap
    /\ user_rows = SeededUsers
    /\ tokens = {Token(1, "alice", 1, TRUE)}
    /\ ignore_rows = <<>>
    /\ propresenter_folder = EmptyMap
    /\ sync_operations = NewSyncOperations
    /\ upload_call = NoCall

AuthLogin ==
    \E username \in AuthUsernames \cup {"carol"}, password \in AuthPasswords :
        /\ AuthApply(login(AuthState, username, password))

AuthBearer ==
    \E credentials \in Credentials :
        /\ AuthApply(Outcome(GetCurrentUser(AuthState, credentials).resp, AuthState))

AuthCreateUser ==
    \E username \in AuthUsernames, password \in AuthPasswords :
        /\ AuthApply(admin_create_user(AuthState, username, password))

AuthUpdateUserStatus ==
    \E username \in AuthUsernames, is_active \in BOOLEAN :
        /\ AuthApply(admin_update_user_status(AuthState, username, is_active))

AuthDeleteUser ==
    \E user_id \in 1..AuthMaxUserId :
        /\ AuthApply(admin_delete_user(AuthState, user_id))

AuthNext ==
    \/ Tick
    \/ AuthLogin
    \/ AuthBearer
    \/ AuthCreateUser
    \/ AuthUpdateUserStatus
    \/ AuthDeleteUser

AuthSpec == AuthInit /\ [][AuthNext]_vars

\* ------------------------------------------------- ignore patterns
\* A string is the sequence of its characters.
MaxPatternLen == 3
MaxPathLen == 3
MaxPatternRows == 2
MaxCreatedLen == 2

Strings(alphabet, n) == UNION { [1..k -> alphabet] : k \in 0..n }

\* pattern lines: a body of literals, separators and wildcards, bare, negated,
\* commented out or padded with blanks
PatternBodies == Strings({"a", "/", "*"}, MaxPatternLen)
PatternLines ==
    { pre \o body : pre \in {<<>>, <<"!">>, <<"#">>, <<" ">>, <<"!", " ">>},
                    body \in PatternBodies }

\* the paths asked about
PatternPaths == Strings({"a", "b", "/"}, MaxPathLen) \ {<<>>}

\* str.strip() for blanks
RECURSIVE LStrip(_)
LStrip(line) ==
    IF line # <<>> /\ Head(line) = " " THEN LStrip(Tail(line)) ELSE line

RECURSIVE RStrip(_, _)
RStrip(line, ch) ==
    IF line # <<>> /\ line[Len(line)] = ch
    THEN RStrip(SubSeq(line, 1, Len(line) - 1), ch) ELSE line

Strip(line) == RStrip(LStrip(line), " ")

\* the tuples ParsePatterns appends for one line: none or one
ParseLine(line) ==
    LET stripped == Strip(line)
        is_negation == stripped # <<>> /\ Head(stripped) = "!"
        pattern == IF is_negation THEN Strip(Tail(stripped)) ELSE stripped
    IN  IF stripped = <<>> \/ Head(stripped) = "#" THEN <<>>
        ELSE IF pattern = <<>> THEN <<>>
        ELSE <<[pattern |-> pattern, is_negation |-> is_negation]>>

RECURSIVE ParsePatterns(_)
ParsePatterns(pattern_lines) ==
    IF pattern_lines = <<>> THEN <<>>
    ELSE ParseLine(Head(pattern_lines)) \o ParsePatterns(Tail(pattern_lines))

\* str.split('/'): the pieces between the separators, empty ones included
RECURSIVE Split(_, _)
Split(text, piece) ==
    IF text = <<>> THEN <<piece>>
    ELSE IF Head(text) = "/" THEN <<piece>> \o Split(Tail(text), <<>>)
    ELSE Split(Tail(text), Append(piece, Head(text)))

RECURSIVE Join(_)
Join(parts) ==
    IF parts = <<>> THEN <<>>
    ELSE IF Len(parts) = 1 THEN parts[1]
    ELSE parts[1] \o <<"/">> \o Join(Tail(parts))

RECURSIVE LStripSlashes(_)
LStripSlashes(text) ==
    IF text # <<>> /\ Head(text) = "/" THEN LStripSlashes(Tail(text)) ELSE text

\* str(Path(file_path)): empty and '.' components dropped, a root of one
\* slash (or of exactly two) kept, '.' for a path with nothing left
NormalizePath(file_path) ==
    LET parts == SelectSeq(Split(file_path, <<>>),
                           LAMBDA c : c # <<>> /\ c # <<".">>)
        slashes == Len(file_path) - Len(LStripSlashes(file_path))
        root == IF slashes = 0 THEN <<>>
                ELSE IF slashes = 2 THEN <<"/", "/">> ELSE <<"/">>
    IN  IF root = <<>> /\ parts = <<>> THEN <<".">> ELSE root \o Join(parts)

\* fnmatch.fnmatch on POSIX: '*' matches any run of characters, separators
\* included, '?' any one character, anything else itself
RECURSIVE Fnmatch(_, _)
Fnmatch(name, pat) ==
    IF pat = <<>> THEN name = <<>>
    ELSE IF Head(pat) = "*"
    THEN Fnmatch(name, Tail(pat)) \/ (name # <<>> /\ Fnmatch(Tail(name), pat))
    ELSE IF Head(pat) = "?"
    THEN name # <<>> /\ Fnmatch(Tail(name), Tail(pat))
    ELSE name # <<>> /\ Head(name) = Head(pat) /\ Fnmatch(Tail(name), Tail(pat))

Contains(text, ch) == \E i \in 1..Len(text) : text[i] = ch

MatchesPattern(file_path, raw_pattern) ==
    LET is_dir_pattern == raw_pattern # <<>> /\ raw_pattern[Len(raw_pattern)] = "/"
        pattern == IF is_dir_pattern THEN RStrip(raw_pattern, "/") ELSE raw_pattern
        path_parts == Split(file_path, <<>>)
    IN  IF Contains(pattern, "/")
        THEN \/ Fnmatch(file_path, pattern)
             \/ Fnmatch(file_path, pattern \o <<"/", "*">>)
        ELSE \/ \E i \in 1..Len(path_parts) : Fnmatch(path_parts[i], pattern)
             \/ Fnmatch(file_path, pattern)

\* the loop of ShouldIgnore over the parsed patterns
RECURSIVE IgnoreState(_, _, _)
IgnoreState(patterns, normalized_path, should_ignore) ==
    IF patterns = <<>> THEN should_ignore
    ELSE IgnoreState(Tail(patterns), normalized_path,
                     IF MatchesPattern(normalized_path, Head(patterns).pattern)
                     THEN ~Head(patterns).is_negation ELSE should_ignore)

\* ShouldIgnore that stops at the first pattern that matches
ShouldIgnoreByFirstMatch(pattern_lines, file_path) ==
    LET patterns == ParsePatterns(pattern_lines)
        normalized_path == NormalizePath(file_path)
        hits == { i \in 1..Len(patterns) :
                    MatchesPattern(normalized_path, patterns[i].pattern) }
    IN  hits # {} /\ ~patterns[CHOOSE i \in hits : \A j \in hits : i <= j].is_negation

\* PatternMatcher(pattern_lines).ShouldIgnore(file_path)
ShouldIgnore(pattern_lines, file_path) ==
    IgnoreState(ParsePatterns(pattern_lines), NormalizePath(file_path), FALSE)

\* PatternMatcher(pattern_lines).FilterPaths(paths)
FilterPaths(pattern_lines, paths) ==
    SelectSeq(paths, LAMBDA q : ~ShouldIgnore(pattern_lines, q))

PatternResponse(code, detail) == [code |-> code, detail |-> detail, paths |-> <<>>]

admin_create_ignore_pattern(rows, pattern) ==
    IF Strip(pattern) = <<>>
    THEN Outcome(PatternResponse(400, "Pattern cannot be empty"), rows)
    ELSE IF \E i \in 1..Len(rows) : rows[i] = Strip(pattern)
    THEN Outcome(PatternResponse(400, "Pattern already exists"), rows)
    ELSE Outcome(PatternResponse(200, ""), Append(rows, Strip(pattern)))

admin_delete_ignore_pattern(rows, pattern_id) ==
    IF pattern_id \notin 1..Len(rows)
    THEN Outcome(PatternResponse(404, "Pattern not found"), rows)
    ELSE Outcome(PatternResponse(200, ""),
                 SubSeq(rows, 1, pattern_id - 1)
                    \o SubSeq(rows, pattern_id + 1, Len(rows)))

PatternApply(o) ==
    /\ Len(o.srv) <= MaxPatternRows
    /\ ignore_rows' = o.srv
    /\ UNCHANGED <<now, current_lock, active_transactions, staging, operations,
                   files, blobs, changelists, settings, user_role,
                   begin_responses, user_rows, tokens,
                   propresenter_folder, sync_operations, upload_call>>

\* the matcher starts from the lines of an ignore file: none or one
PatternInit ==
    /\ now = 0
    /\ current_lock = NoLock
    /\ active_transactions = EmptyMap
    /\ staging = EmptyMap
    /\ operations = <<>>
    /\ files = EmptyMap
    /\ blobs = EmptyMap
    /\ changelists = <<>>
    /\ settings \in SettingsChoices
    /\ user_role \in RoleAssignments
    /\ begin_responses = EmptyMap
    /\ user_rows = SeededUsers
    /\ tokens = {}
    /\ ignore_rows \in { <<>> } \cup { <<line>> : line \in PatternLines }
    /\ propresenter_folder = EmptyMap
    /\ sync_operations = NewSyncOperations
    /\ upload_call = NoCall

\* the patterns an administrator adds
CreatedPatterns == { line \in PatternLines : Len(line) <= MaxCreatedLen }

PatternCreate ==
    \E pattern \in CreatedPatterns :
        /\ PatternApply(admin_create_ignore_pattern(ignore_rows, pattern))

PatternDelete ==
    \E pattern_id \in 1..MaxPatternRows :
        /\ PatternApply(admin_delete_ignore_pattern(ignore_rows, pattern_id))

\* the path lists handed to FilterPaths
PathLists ==
    { <<q1, q2>> : q1 \in PatternPaths, q2 \in Strings({"a", "b", "/"}, 1) \ {<<>>} }

PatternFilter ==
    \E paths \in PathLists :
        /\ PatternApply(Outcome([PatternResponse(200, "") EXCEPT
                                    !.paths = FilterPaths(ignore_rows, paths)],
                                ignore_rows))

PatternNext ==
    \/ PatternCreate
    \/ PatternDelete
    \/ PatternFilter

PatternSpec == PatternInit /\ [][PatternNext]_vars

\* ------------------------------------------------------------ properties
\* the transactions begun so far; begin_transaction gives a transaction the
\* number of its Operation Record
Begun == DOMAIN begin_responses

Owner(t) == operations[t].user_id

\* the timeout granted to transaction t has elapsed since its begin
Expired(t) ==
    now - operations[t].locked_at_utc >= begin_responses[t].timeout_seconds

\* t is in the active map and its timeout has not elapsed
Live(t) == t \in DOMAIN active_transactions /\ t \in Begun /\ ~Expired(t)

\* the transaction whose begin acquired the lock in force (0: no lock in
\* force): the lock in force is always that of the latest begin
LockTransaction ==
    IF GetCurrentLock(current_lock, now) = NoLock THEN 0 ELSE Max(Begun)

LockIsOfLatestBegin ==
    GetCurrentLock(current_lock, now) # NoLock =>
        /\ Begun # {}
        /\ current_lock.user_id = operations[Max(Begun)].user_id
        /\ current_lock.locked_at_utc = operations[Max(Begun)].locked_at_utc
        /\ current_lock.timeout_seconds = begin_responses[Max(Begun)].timeout_seconds

NotFound(response) ==
    response.code = 404 /\ response.detail = "Transaction not found"

\* a begin request that passes validation and the permission check and meets
\* no fault, so that it reaches the lock
ReachesLock(r) ==
    /\ r.operation_type \in valid_operations
    /\ r.service_type \in valid_service_types
    /\ r.operation_type = "Push" => UserHasPermission(r.user_id, "can_push")
    /\ r.operation_type = "Reconcile" =>
          UserHasPermission(r.user_id, "can_reconcile") /\ r.client_files # <<>>
    /\ r.fault = "none"

BeginOutcome(r) ==
    begin_transaction(Server, r.user_id, r.operation_type, r.service_type,
                      r.client_files, r.fault)

\* C1: at most one transaction of the active map has an Operation Record with
\* status 'active', and at most one non-expired lock exists.
C1_MutualExclusion ==
    /\ Cardinality({ t \in DOMAIN active_transactions :
                       operations[active_transactions[t].operation_id].status
                           = "active" }) <= 1
    /\ Cardinality({ l \in {current_lock} :
                       l # NoLock /\ now - l.locked_at_utc < l.timeout_seconds })
          <= 1

\* C2: once the timeout of a transaction has elapsed, every call of its owner
\* on its id (upload, delete, download, commit, rollback) is answered 404
\* transaction-not-found, and a commit leaves the files table and the
\* revision store as they were.
C2_ExpiredTransactionNotFound ==
    \A t \in Begun :
        Expired(t) =>
            /\ \A p \in Paths, b \in Contents :
                  NotFound(upload_file(Server, Owner(t), t, p, b).resp)
            /\ \A p \in Paths :
                  /\ NotFound(delete_file(Server, Owner(t), t, p).resp)
                  /\ NotFound(download_file_in_transaction(Server, Owner(t), t, p).resp)
            /\ NotFound(rollback_transaction(Server, Owner(t), t, NoFault).resp)
            /\ LET o == commit_transaction(Server, Owner(t), t, NoFault)
               IN  /\ NotFound(o.resp)
                   /\ o.srv.files = files
                   /\ o.srv.blobs = blobs

\* C3: a step in which a transaction leaves the active map and the files
\* table or the revision store changes (its commit writes) is taken only
\* while no other transaction holds the non-expired lock.
C3_CommitsDoNotInterleave ==
    [][\A t \in DOMAIN active_transactions :
          (t \notin DOMAIN active_transactions' /\ (files' # files \/ blobs' # blobs))
              => LockTransaction \in {0, t}]_vars

\* C4: a begin that reaches the lock while a user other than the requester
\* holds it unexpired is answered 409 with the holder's username, the
\* holder's operation type and the elapsed seconds, and leaves the lock, the
\* active map, the staging root and the Operation Records as they were.
C4_LockConflictDenied ==
    \A r \in BeginRequests :
        LET held == current_lock
            o == BeginOutcome(r)
        IN  (/\ ReachesLock(r)
             /\ held # NoLock
             /\ now - held.locked_at_utc < held.timeout_seconds
             /\ held.user_id # r.user_id)
            => /\ o.resp.code = 409
               /\ o.resp.message = [username |-> held.username,
                                    operation_type |-> held.operation_type,
                                    elapsed |-> now - held.locked_at_utc]
               /\ o.srv.lock = current_lock
               /\ o.srv.txns = active_transactions
               /\ o.srv.staging = staging
               /\ o.srv.ops = operations

\* alice's Push holds the lock, one second old and unexpired, her
\* transaction is active, and bob's Pull begin is answered 409
C4_Witness ==
    /\ current_lock.user_id = 1
    /\ current_lock.operation_type = "Push"
    /\ now - current_lock.locked_at_utc = 1
    /\ current_lock.timeout_seconds > 1
    /\ \E t \in DOMAIN active_transactions : active_transactions[t].user_id = 1
    /\ begin_transaction(Server, 2, "Pull", "Contemporary", <<>>, "none").resp.code
          = 409

\* C5: no reader of the lock observes a lock whose timeout has elapsed; the
\* first read at or after that instant clears the lock and reports none; and
\* a begin that reaches the lock at or after that instant is granted.
C5_ExpiryOnAccess ==
    /\ LET observed == GetCurrentLock(current_lock, now)
       IN  observed # NoLock =>
              now - observed.locked_at_utc < observed.timeout_seconds
    /\ LET status == get_lock_status(Server)
       IN  status.resp.detail = "locked" =>
              /\ status.srv.lock # NoLock
              /\ status.resp.message.elapsed < status.srv.lock.timeout_seconds
    /\ (current_lock # NoLock
        /\ now - current_lock.locked_at_utc >= current_lock.timeout_seconds)
       => /\ get_lock_status(Server).resp.detail = "unlocked"
          /\ get_lock_status(Server).srv.lock = NoLock
          /\ \A r \in BeginRequests :
                ReachesLock(r) =>
                    /\ BeginOutcome(r).resp.code = 200
                    /\ BeginOutcome(r).srv.lock.user_id = r.user_id
                    /\ BeginOutcome(r).srv.lock.locked_at_utc = now

\* alice's lock is still stored exactly when its timeout elapses, the lock
\* status reports none, and bob's begin is granted
C5_Witness ==
    /\ current_lock.user_id = 1
    /\ now - current_lock.locked_at_utc = current_lock.timeout_seconds
    /\ get_lock_status(Server).resp.detail = "unlocked"
    /\ begin_transaction(Server, 2, "Pull", "Contemporary", <<>>, "none").resp.code
          = 200

\* C6: every directory under the staging root belongs to a transaction that
\* is in the active map with its timeout not elapsed.
C6_NoOrphanStaging ==
    \A t \in DOMAIN staging : Live(t)

\* the fault f is met by the commit of transaction t: the loop reaches
\* position f.at with that path still staged
FaultMet(t, f) ==
    LET uploaded == active_transactions[t].uploaded_files
    IN  /\ f.step \in {"move", "metadata"}
        /\ f.at \in 1..Len(uploaded)
        /\ t \in DOMAIN staging
        /\ uploaded[f.at] \in DOMAIN staging[t]
        /\ \A j \in 1..(f.at - 1) : uploaded[j] # uploaded[f.at]

\* C7: a commit in which the move or the metadata insert of an uploaded path
\* fails returns a server error, leaves no row and no blob of its own in the
\* store, and sets the Operation Record to 'rolled_back'.
C7_CommitAllOrNothing ==
    \A t \in DOMAIN active_transactions, f \in CommitFaults :
        FaultMet(t, f) =>
            LET o == commit_transaction(Server, active_transactions[t].user_id,
                                        t, f)
            IN  /\ o.resp.code >= 500
                /\ o.srv.files = files
                /\ o.srv.blobs = blobs
                /\ o.srv.ops[active_transactions[t].operation_id].status
                      = "rolled_back"

\* C8: the admin's cancel of an active transaction sets its Operation Record
\* to 'cancelled_by_admin', removes its staging directory, releases the lock
\* and drops it from the active map, and the next begin of another user is
\* granted.
C8_AdminCancelTakesEffect ==
    \A t \in DOMAIN active_transactions :
        LET o == admin_cancel_operation(Server, t)
        IN  /\ o.srv.ops[active_transactions[t].operation_id].status
                  = "cancelled_by_admin"
            /\ t \notin DOMAIN o.srv.staging
            /\ o.srv.lock = NoLock
            /\ t \notin DOMAIN o.srv.txns
            /\ \E u \in Users \ {active_transactions[t].user_id} :
                  begin_transaction(o.srv, u, "Pull", "Contemporary", <<>>,
                                    "none").resp.code = 200

CancelledByAdmin(response) ==
    response.code = 409 /\ response.error = "transaction_cancelled_by_admin"

\* C9: after the admin's cancel of an active transaction, the owner's upload,
\* download and commit on its id are answered 409 with the error code
\* 'transaction_cancelled_by_admin'.
C9_CancelledCallsAnswered409 ==
    \A t \in DOMAIN active_transactions :
        LET cancelled == admin_cancel_operation(Server, t).srv
            user_id == active_transactions[t].user_id
        IN  /\ \A p \in Paths, b \in Contents :
                  CancelledByAdmin(upload_file(cancelled, user_id, t, p, b).resp)
            /\ \A p \in Paths :
                  CancelledByAdmin(
                      download_file_in_transaction(cancelled, user_id, t, p).resp)
            /\ CancelledByAdmin(
                  commit_transaction(cancelled, user_id, t, NoFault).resp)

\* C10: every transaction begun has one Operation Record; the record is
\* 'active' exactly while the transaction is live, and otherwise carries a
\* terminal status.
C10_OperationRecordLifecycle ==
    \A t \in Begun :
        /\ t \in DOMAIN operations
        /\ operations[t].status = "active" <=> Live(t)
        /\ ~Live(t) =>
              operations[t].status \in {"completed", "rolled_back",
                                        "cancelled_by_admin"}

\* the permission p is among those of the role of user u, or the role is admin
Holds(u, p) ==
    \/ p \in RolePermissions(user_role[u])
    \/ "admin" \in RolePermissions(user_role[u])

RequiredPermission(operation_type) ==
    CASE operation_type = "Push" -> "can_push"
      [] operation_type = "Reconcile" -> "can_reconcile"
      [] OTHER -> "can_pull"

\* C11: a Push begin is granted only to a user holding can_push (or admin)
\* and a Reconcile begin only to a user holding can_reconcile (or admin), so
\* every Push or Reconcile transaction and lock belongs to such a user; and
\* a begin answered 403 or 400 leaves the lock, the Operation Records, the
\* active map and the staging root as they were.
C11_PermissionGating ==
    /\ \A r \in BeginRequests :
          LET o == BeginOutcome(r)
          IN  /\ (o.resp.code = 200 /\ r.operation_type \in {"Push", "Reconcile"})
                    => Holds(r.user_id, RequiredPermission(r.operation_type))
              /\ (r.operation_type \in {"Push", "Reconcile"}
                   /\ r.service_type \in valid_service_types
                   /\ ~Holds(r.user_id, RequiredPermission(r.operation_type)))
                    => o.resp.code = 403
              /\ o.resp.code \in {400, 403} =>
                    /\ o.srv.lock = current_lock
                    /\ o.srv.ops = operations
                    /\ o.srv.txns = active_transactions
                    /\ o.srv.staging = staging
    /\ \A t \in DOMAIN active_transactions :
          active_transactions[t].operation_type \in {"Push", "Reconcile"} =>
              Holds(active_transactions[t].user_id,
                    RequiredPermission(active_transactions[t].operation_type))
    /\ current_lock.operation_type \in {"Push", "Reconcile"} =>
          Holds(current_lock.user_id,
                RequiredPermission(current_lock.operation_type))

\* the lock is free, alice the editor has had a Push granted before, and
\* bob the viewer's Push and Reconcile begins are answered 403 while his Pull
\* begin would be granted
C11_Witness ==
    /\ GetCurrentLock(current_lock, now) = NoLock
    /\ \E i \in 1..Len(operations) :
          operations[i].user_id = 1 /\ operations[i].operation_type = "Push"
    /\ begin_transaction(Server, 2, "Push", "Contemporary", <<>>, "none").resp.code
          = 403
    /\ \E c \in ClientInventories \ {<<>>} :
          begin_transaction(Server, 2, "Reconcile", "Contemporary", c,
                            "none").resp.code = 403
    /\ begin_transaction(Server, 2, "Pull", "Contemporary", <<>>, "none").resp.code
          = 200

\* C12: the commit of a Pull transaction adds no revision row, no blob and no
\* changelist, whatever its owner uploaded or marked for deletion before:
\* the files table, the revision store and the changelists after the commit
\* are those before it.
C12_PullAddsNoRevision ==
    \A t \in DOMAIN active_transactions :
        active_transactions[t].operation_type = "Pull" =>
            LET o == commit_transaction(Server, active_transactions[t].user_id,
                                        t, NoFault)
            IN  /\ o.srv.files = files
                /\ o.srv.blobs = blobs
                /\ o.srv.cls = changelists

\* C13: upload, download, delete, commit and rollback on a transaction of the
\* active map issued by a user other than its owner are answered 403 and
\* leave the transaction's lists, its staging directory, the lock, the
\* Operation Records, the files table and the revision store as they were.
C13_OwnershipEnforced ==
    \A t \in DOMAIN active_transactions :
        \A u \in Users \ {active_transactions[t].user_id} :
            LET Rejected(o) == o.resp.code = 403 /\ o.srv = Server
            IN  /\ \A p \in Paths, b \in Contents :
                      Rejected(upload_file(Server, u, t, p, b))
                /\ \A p \in Paths :
                      /\ Rejected(download_file_in_transaction(Server, u, t, p))
                      /\ Rejected(delete_file(Server, u, t, p))
                /\ \A f \in CommitFaults :
                      /\ Rejected(commit_transaction(Server, u, t, f))
                      /\ Rejected(rollback_transaction(Server, u, t, f))

\* alice's transaction holds a staged upload and a path marked for deletion,
\* and bob's commit and delete on it are answered 403
C13_Witness ==
    \E t \in DOMAIN active_transactions :
        /\ active_transactions[t].user_id = 1
        /\ active_transactions[t].uploaded_files # <<>>
        /\ active_transactions[t].deleted_files # <<>>
        /\ t \in DOMAIN staging /\ staging[t] # EmptyMap
        /\ commit_transaction(Server, 2, t, NoFault).resp.code = 403
        /\ delete_file(Server, 2, t, "a.txt").resp.code = 403

\* request paths that leave the directory they are joined to: one with a
\* '..' component and one absolute
TraversalPaths == {"../x.txt", "/etc/x.txt"}

\* Path(path).parts for the paths tried
PathParts(path) ==
    CASE path = "../x.txt" -> <<"..", "x.txt">>
      [] path = "/etc/x.txt" -> <<"/", "etc", "x.txt">>
      [] OTHER -> <<path>>

\* joined to a directory, the path stays inside it
Confined(path) ==
    \A i \in 1..Len(PathParts(path)) : PathParts(path)[i] \notin {"..", "/"}

\* C14: an upload, delete or download whose path is absolute or has a '..'
\* component is answered 400 and leaves the server state as it was; and every
\* staged file lies inside its transaction's staging directory and every
\* blob inside its service's storage directory.
C14_PathConfinement ==
    /\ \A t \in DOMAIN active_transactions, p \in TraversalPaths :
          LET user_id == active_transactions[t].user_id
              Refused(o) == o.resp.code = 400 /\ o.srv = Server
          IN  /\ \A b \in Contents : Refused(upload_file(Server, user_id, t, p, b))
              /\ Refused(delete_file(Server, user_id, t, p))
              /\ Refused(download_file_in_transaction(Server, user_id, t, p))
    /\ \A t \in DOMAIN staging : \A p \in DOMAIN staging[t] : Confined(p)
    /\ \A k \in DOMAIN blobs : Confined(k[2])

\* the rows of path p written by a step: new ones and rewritten ones
WrittenRevisions(p, service_type) ==
    { r \in RevisionsOf(files', p, service_type) :
        \/ r \notin RevisionsOf(files, p, service_type)
        \/ files'[<<service_type, p, r>>] # files[<<service_type, p, r>>] }

GapFree(revs) == \A r \in revs, q \in revs : \A x \in r..q : x \in revs

\* C15: through every commit and restore the revision numbers of a path stay
\* a gap-free range, one row per number, and every revision a step writes
\* (an upload, a restored or archived copy, a tombstone) takes the numbers
\* that follow the previous maximum (from 0 for a first version), never the
\* number of a row already there, so that the highest number is the current
\* version.
C15_MonotonicRevisions ==
    [][\A p \in Paths, service_type \in valid_service_types :
          LET old == RevisionsOf(files, p, service_type)
              new == RevisionsOf(files', p, service_type)
              written == WrittenRevisions(p, service_type)
              first == GetNextRevisionNumber(files, p, service_type)
          IN  /\ GapFree(new)
              /\ old \subseteq new
              /\ written = first..(first + Cardinality(written) - 1)]_vars

SeqElems(q) == { q[i] : i \in 1..Len(q) }

\* C16: when a transaction that marked path p for deletion (and uploads no
\* new p) commits while the current version of p is not deleted, at whatever
\* revision number, then after the commit the highest revision of p is a
\* tombstone with null hash and size, the listing omits p, the download of p
\* is answered 404, and the content p had is still held by a numbered
\* revision that is not a tombstone.
C16_DeletionAtCommit ==
    \A t \in DOMAIN active_transactions :
        LET transaction == active_transactions[t]
            service_type == transaction.service_type
        IN  \A p \in SeqElems(transaction.deleted_files)
                            \ SeqElems(transaction.uploaded_files) :
                LET before == CurrentRecord(files, p, service_type)
                    o == commit_transaction(Server, transaction.user_id, t, NoFault)
                    after == CurrentRecord(o.srv.files, p, service_type)
                IN  (before # NoRow /\ ~before.is_deleted) =>
                        /\ after.is_deleted
                        /\ after.file_hash = None /\ after.size = None
                        /\ \A e \in list_files(o.srv, service_type).resp.files :
                              e.path # p
                        /\ download_file(o.srv, p, service_type).resp.code = 404
                        /\ \E r \in RevisionsOf(o.srv.files, p, service_type) :
                              LET row == GetFileMetadata(o.srv.files, p,
                                                         service_type, r)
                                  path == GetRevisionPath(p, r, service_type)
                              IN  /\ ~row.is_deleted
                                  /\ row.file_hash = before.file_hash
                                  /\ path \in DOMAIN o.srv.blobs
                                  /\ CalculateFileHash(o.srv.blobs[path])
                                        = before.file_hash

\* the revision numbers of the blobs of path p in the store
BlobRevisionsOf(b, relative_path, service_type) ==
    { k[3] : k \in { x \in DOMAIN b : x[1] = service_type /\ x[2] = relative_path } }

\* the n highest numbers of a set
Highest(revs, n) ==
    { r \in revs : Cardinality({ q \in revs : q > r }) < n }

\* C17: after a commit that adds a revision of path p, the revision rows of p
\* and its blobs number at most max_revisions, and those kept are the
\* highest-numbered of the rows before together with the new one.
C17_RetentionCap ==
    \A t \in DOMAIN active_transactions :
        LET transaction == active_transactions[t]
            service_type == transaction.service_type
            o == commit_transaction(Server, transaction.user_id, t, NoFault)
        IN  \A p \in SeqElems(transaction.uploaded_files) :
                LET old == RevisionsOf(files, p, service_type)
                    new == RevisionsOf(o.srv.files, p, service_type)
                IN  new # old =>
                        /\ Cardinality(new) <= settings.max_revisions
                        /\ Cardinality(BlobRevisionsOf(o.srv.blobs, p, service_type))
                              <= settings.max_revisions
                        /\ new = Highest(old \cup {GetNextRevisionNumber(files, p,
                                                        service_type)},
                                         settings.max_revisions)

\* the outcome leaves the files table, the revision store and the
\* changelists as they are
StoreUntouched(o) ==
    /\ o.srv.files = files
    /\ o.srv.blobs = blobs
    /\ o.srv.cls = changelists

\* C18: no step of a transaction that ends in a rollback touches the files
\* table, the changelists or the revision store: not its begin, not any of
\* its uploads and deletion marks, not the rollback; the rollback changes
\* the Operation Records only in setting the transaction's own record to
\* 'rolled_back', removes the transaction and its staging directory, and
\* leaves the lock free.
C18_RollbackTransparent ==
    /\ \A r \in BeginRequests : StoreUntouched(BeginOutcome(r))
    /\ \A t \in DOMAIN active_transactions :
          LET user_id == active_transactions[t].user_id
              o == rollback_transaction(Server, user_id, t, NoFault)
          IN  /\ \A p \in Paths, b \in Contents :
                    StoreUntouched(upload_file(Server, user_id, t, p, b))
              /\ \A p \in Paths : StoreUntouched(delete_file(Server, user_id, t, p))
              /\ o.resp.code = 200
              /\ StoreUntouched(o)
              /\ o.srv.ops = [operations EXCEPT
                                ![active_transactions[t].operation_id].status
                                    = "rolled_back"]
              /\ t \notin DOMAIN o.srv.txns
              /\ t \notin DOMAIN o.srv.staging
              /\ o.srv.lock = NoLock

\* a transaction holds a staged upload and a deletion mark on a path whose
\* current version is stored and not deleted, so that its commit would
\* change the store, and its rollback is answered 200
C18_Witness ==
    \E t \in DOMAIN active_transactions :
        /\ active_transactions[t].uploaded_files # <<>>
        /\ t \in DOMAIN staging /\ staging[t] # EmptyMap
        /\ \E p \in SeqElems(active_transactions[t].deleted_files) :
              /\ CurrentRecord(files, p, active_transactions[t].service_type) # NoRow
              /\ ~CurrentRecord(files, p, active_transactions[t].service_type).is_deleted
        /\ ~StoreUntouched(commit_transaction(Server, active_transactions[t].user_id,
                                              t, NoFault))
        /\ rollback_transaction(Server, active_transactions[t].user_id, t,
                                NoFault).resp.code = 200

HashIntegrity(f, b) ==
    \A k \in DOMAIN f :
        ~f[k].is_deleted =>
            /\ GetRevisionPath(k[2], k[3], k[1]) \in DOMAIN b
            /\ CalculateFileHash(b[GetRevisionPath(k[2], k[3], k[1])]) = f[k].file_hash
            /\ StatSize(b[GetRevisionPath(k[2], k[3], k[1])]) = f[k].size

C21_Restore ==
    \A user_id \in Users, p \in Paths, R \in StoreRevisions :
        LET service_type == "Contemporary"
            revs == RevisionsOf(files, p, service_type)
            N == Max(revs)
            o == restore_file_revision(Server, user_id, p, R, service_type)
            At(r) == GetRevisionPath(p, r, service_type)
        IN  IF revs = {} \/ R \notin revs \/ R = N
            THEN o.resp.code \in {400, 404} /\ o.srv = Server
            ELSE /\ o.resp.code = 200
                 /\ RevisionsOf(o.srv.files, p, service_type)
                       = revs \cup {N + 1, N + 2}
                 /\ DOMAIN o.srv.files = DOMAIN files \cup {At(N + 1), At(N + 2)}
                 /\ DOMAIN o.srv.blobs = DOMAIN blobs \cup {At(N + 1), At(N + 2)}
                 /\ \A k \in DOMAIN files : o.srv.files[k] = files[k]
                 /\ \A k \in DOMAIN blobs \ {At(N + 1), At(N + 2)} :
                       o.srv.blobs[k] = blobs[k]
                 /\ o.srv.blobs[At(N + 1)] = blobs[At(N)]
                 /\ o.srv.blobs[At(N + 2)] = blobs[At(R)]
                 /\ ~o.srv.files[At(N + 1)].is_deleted
                 /\ ~o.srv.files[At(N + 2)].is_deleted
                 /\ CurrentRecord(o.srv.files, p, service_type).revision = N + 2
                 /\ download_file(o.srv, p, service_type).resp.code = 200
                 /\ download_file(o.srv, p, service_type).resp.body = blobs[At(R)]
                 /\ [o.srv EXCEPT !.files = files, !.blobs = blobs] = Server

\* a restore has acted on a.txt: above two committed revisions of different
\* content lie the archived copy of the later one and, as current version,
\* the copy of the earlier one
C21_Witness ==
    \E N \in StoreRevisions :
        LET At(r) == <<"Contemporary", "a.txt", r>>
        IN  /\ N >= 1
            /\ RevisionsOf(files, "a.txt", "Contemporary") = 0..(N + 2)
            /\ files[At(N)].changelist_id # None
            /\ files[At(N + 1)].changelist_id = None
            /\ files[At(N + 2)].changelist_id = None
            /\ blobs[At(N + 1)] = blobs[At(N)]
            /\ \E R \in 0..(N - 1) :
                  /\ blobs[At(R)] # blobs[At(N)]
                  /\ blobs[At(N + 2)] = blobs[At(R)]
            /\ download_file(Server, "a.txt", "Contemporary").resp.body
                  = blobs[At(N + 2)]

\* from store sa to store sb no row and no blob of a row is rewritten, and
\* every row added to a path has a number above all the path had
NothingOverwritten(sa, sb) ==
    /\ \A k \in DOMAIN sa.files :
          /\ k \in DOMAIN sb.files
          /\ sb.files[k] = sa.files[k]
          /\ k \in DOMAIN sa.blobs =>
                k \in DOMAIN sb.blobs /\ sb.blobs[k] = sa.blobs[k]
    /\ \A k \in DOMAIN sb.files \ DOMAIN sa.files :
          \A r \in RevisionsOf(sa.files, k[2], k[1]) : k[3] > r

\* the restore of revision R of path p passes its checks in state s
RestoreAdmitted(s, p, R, service_type) ==
    LET revs == RevisionsOf(s.files, p, service_type)
    IN  /\ R \in revs
        /\ R # Max(revs)
        /\ GetRevisionPath(p, R, service_type) \in DOMAIN s.blobs
        /\ GetRevisionPath(p, Max(revs), service_type) \in DOMAIN s.blobs

\* C22: restore takes no lock; when a commit of a transaction, or another
\* restore, runs before the two inserts of a restore, between them or after
\* them, no step of the schedule rewrites a revision row or its blob, and
\* every row a step adds has a number above all the rows the path had.
C22_RestoreConcurrentWithCommit ==
    \A p \in StoredPaths, R \in StoreRevisions :
        LET service_type == "Contemporary"
            Others(s) ==
                { commit_transaction(s, s.txns[t].user_id, t, NoFault).srv :
                    t \in DOMAIN s.txns }
                \cup { restore_file_revision(s, 2, p, Q, service_type).srv :
                         Q \in StoreRevisions }
            Archived(s) ==
                RestoreArchive(s, p, Max(RevisionsOf(s.files, p, service_type)),
                               service_type)
        IN  /\ RestoreAdmitted(Server, p, R, service_type) =>
                  LET s1 == Archived(Server)
                      s3 == RestoreCopy(s1, 1, p, R, service_type)
                  IN  /\ s3 = restore_file_revision(Server, 1, p, R,
                                                   service_type).srv
                      /\ NothingOverwritten(Server, s1)
                      /\ NothingOverwritten(s1, s3)
                      /\ \A s2 \in Others(s1) :
                            /\ NothingOverwritten(s1, s2)
                            /\ NothingOverwritten(s2, RestoreCopy(s2, 1, p, R,
                                                                 service_type))
                      /\ \A s4 \in Others(s3) : NothingOverwritten(s3, s4)
            /\ \A s0 \in Others(Server) :
                  RestoreAdmitted(s0, p, R, service_type) =>
                      /\ NothingOverwritten(Server, s0)
                      /\ NothingOverwritten(s0, Archived(s0))
                      /\ NothingOverwritten(Archived(s0),
                             RestoreCopy(Archived(s0), 1, p, R, service_type))

\* the paths whose current version on the server is not a tombstone
LivePaths(f, service_type) ==
    { p \in Paths : /\ RevisionsOf(f, p, service_type) # {}
                    /\ ~CurrentRecord(f, p, service_type).is_deleted }

PlanIsPartition(plan, client_paths, server_paths) ==
    LET pull == SeqElems(plan.files_to_pull)
        push == SeqElems(plan.files_to_push)
    IN  /\ pull \cap push = {}
        /\ Cardinality(pull) = Len(plan.files_to_pull)
        /\ Cardinality(push) = Len(plan.files_to_push)
        /\ pull \cup push \subseteq client_paths \cup server_paths

\* C23: for every client inventory and the server's rows, files_to_pull and
\* files_to_push are disjoint, hold no path twice and hold only paths that
\* are on the client or have a current version on the server that is not a
\* tombstone; so every such path is in exactly one of pull, push, neither.
\* The plan a Reconcile transaction carries is of this kind.
C23_ReconcileTotality ==
    /\ \A c \in PlannerInventories :
          PlanIsPartition(CompareFilesForReconcile(files, c, "Contemporary"),
                          ClientPaths(c), LivePaths(files, "Contemporary"))
    /\ \A t \in DOMAIN active_transactions :
          PlanIsPartition(active_transactions[t], Paths,
                          LivePaths(files, "Contemporary"))

\* a Reconcile transaction carries a plan with a path to pull and a path to
\* push, and an inventory naming both server paths gets them planned
C23_Witness ==
    /\ LivePaths(files, "Contemporary") = Paths
    /\ \E t \in DOMAIN active_transactions :
          /\ active_transactions[t].operation_type = "Reconcile"
          /\ active_transactions[t].files_to_pull # <<>>
          /\ active_transactions[t].files_to_push # <<>>
    /\ \E c \in PlannerInventories :
          /\ ClientPaths(c) = Paths
          /\ Len(CompareFilesForReconcile(files, c, "Contemporary").files_to_pull)
                + Len(CompareFilesForReconcile(files, c,
                                               "Contemporary").files_to_push) = 2

\* the rule the planner is to follow for path p, client inventory c and the
\* server's rows
ReferenceDecision(p, c, service_type) ==
    LET on_client == p \in ClientPaths(c)
        on_server == p \in LivePaths(files, service_type)
        e == c[CHOOSE i \in 1..Len(c) : c[i].path = p]
        r == CurrentRecord(files, p, service_type)
        later_server == r.last_modified_utc > e.modified_utc
        apart == \/ r.last_modified_utc - e.modified_utc > 1
                 \/ e.modified_utc - r.last_modified_utc > 1
    IN  CASE ~on_client /\ ~on_server -> "none"
          [] on_client /\ ~on_server -> "push"
          [] ~on_client /\ on_server -> "pull"
          [] on_client /\ on_server /\ apart ->
                IF later_server THEN "pull" ELSE "push"
          [] on_client /\ on_server /\ ~apart
             /\ (e.size # r.size \/ e.hash # r.file_hash) ->
                IF r.last_modified_utc >= e.modified_utc THEN "pull" ELSE "push"
          [] OTHER -> "none"

Occurrences(q, x) == Cardinality({ i \in 1..Len(q) : q[i] = x })

\* C25: a commit creates one revision for every call of upload_file, in call
\* order: a path uploaded k times in the transaction gets the k revisions
\* N, N+1, ..., N+k-1, N being one above its highest revision before (0 if
\* it had none), and files_total is the number of revisions created.
\* (Stated for transactions that mark nothing for deletion.)
C25_InsertionOrder ==
    \A t \in DOMAIN active_transactions :
        LET transaction == active_transactions[t]
            service_type == transaction.service_type
            co == commit_transaction(Server, transaction.user_id, t, NoFault)
            created(p) == RevisionsOf(co.srv.files, p, service_type)
                            \ RevisionsOf(files, p, service_type)
        IN  (co.resp.code = 200 /\ transaction.deleted_files = <<>>) =>
              /\ \A p \in Paths :
                    LET k == Occurrences(transaction.uploaded_files, p)
                        before == RevisionsOf(files, p, service_type)
                        N == IF before = {} THEN 0 ELSE Max(before) + 1
                    IN  created(p) = N..(N + k - 1)
              /\ co.resp.files_total
                    = Cardinality(UNION { { <<p, r>> : r \in created(p) }
                                          : p \in Paths })

\* the commit of transaction t under fault keeps the changelist linkage
LinkageKept(t, fault) ==
    LET transaction == active_transactions[t]
        co == commit_transaction(Server, transaction.user_id, t, fault)
        added == DOMAIN co.srv.files \ DOMAIN files
        created == Len(co.srv.cls) - Len(changelists)
    IN  co.resp.code = 200 =>
          /\ created = IF transaction.uploaded_files # <<>> THEN 1 ELSE 0
          /\ \A k \in added :
                /\ created = 1
                /\ co.srv.files[k].changelist_id # None
                /\ co.srv.files[k].changelist_id = Len(co.srv.cls)
          /\ \A k \in DOMAIN files :
                co.srv.files[k].changelist_id
                    \in {None, files[k].changelist_id}

\* C26: a commit creates a changelist exactly when the transaction uploaded
\* at least one path; every revision row the commit adds carries the id of
\* that changelist, never null; and no row is linked to the changelist of
\* another commit.
C26_ChangelistLinkage ==
    \A t \in DOMAIN active_transactions, fault \in CommitFaults :
        LinkageKept(t, fault)

\* the linkage holds for every commit whose changelist insert does not raise
C26_LinkageUnlessChangelistFails ==
    \A t \in DOMAIN active_transactions, fault \in CommitFaults :
        fault.step # "changelist" => LinkageKept(t, fault)

\* the bytes the plan moves: the server's size of each path to pull and the
\* client's size of each path to push
PlannedBytes(plan, c, service_type) ==
    LET pull == plan.files_to_pull
        push == plan.files_to_push
        server_bytes(p) == CurrentRecord(files, p, service_type).size
        client_bytes(p) == c[CHOOSE i \in 1..Len(c) : c[i].path = p].size
        pulled[i \in 0..Len(pull)] ==
            IF i = 0 THEN 0 ELSE pulled[i - 1] + server_bytes(pull[i])
        pushed[i \in 0..Len(push)] ==
            IF i = 0 THEN 0 ELSE pushed[i - 1] + client_bytes(push[i])
    IN  pulled[Len(pull)] + pushed[Len(push)]

\* max(min_lock_timeout_seconds, whole megabytes + 2 * files) for inventory c
ReferenceTimeout(c, service_type) ==
    LET plan == CompareFilesForReconcile(files, c, service_type)
        count == Len(plan.files_to_pull) + Len(plan.files_to_push)
        bytes == PlannedBytes(plan, c, service_type)
        \* the whole part of bytes / 2^20 + 2 * count
        computed == (bytes \div BytesPerMB) + 2 * count
    IN  IF computed > settings.min_lock_timeout_seconds
        THEN computed ELSE settings.min_lock_timeout_seconds

PlanPaths(c, service_type) ==
    LET plan == CompareFilesForReconcile(files, c, service_type)
    IN  SeqElems(plan.files_to_pull) \cup SeqElems(plan.files_to_push)

LoginFailuresUniform ==
    \A u1, u2 \in AuthUsernames \cup {"carol"}, p1, p2 \in AuthPasswords :
        LET r1 == login(AuthState, u1, p1).resp
            r2 == login(AuthState, u2, p2).resp
        IN  (r1.code # 200 /\ r2.code # 200) => r1 = r2

\* every request refused for its bearer credential gets one and the same
\* response
BearerFailuresUniform ==
    \A c1, c2 \in Credentials :
        LET r1 == GetCurrentUser(AuthState, c1).resp
            r2 == GetCurrentUser(AuthState, c2).resp
        IN  (r1.code # 200 /\ r2.code # 200) => r1 = r2

\* C28: the response (status and body) to a failed login is the same for an
\* unknown username, a wrong password and a disabled account, and the
\* response to a bad bearer credential is the same for an invalid token, the
\* token of a deleted user and the token of a disabled user.
C28_UniformAuthFailure ==
    /\ LoginFailuresUniform
    /\ BearerFailuresUniform

\* the lines ParsePatterns passes over
SkippedLines == {<<>>, <<" ">>, <<"#">>, <<"#", "a">>, <<" ", "#", "*">>}

InsertAt(q, k, x) == SubSeq(q, 1, k) \o <<x>> \o SubSeq(q, k + 1, Len(q))

\* the verdict of the last pattern of the list that matches the path
LastMatchIgnores(pattern_lines, file_path) ==
    LET patterns == ParsePatterns(pattern_lines)
        hits == { i \in 1..Len(patterns) :
                    MatchesPattern(NormalizePath(file_path), patterns[i].pattern) }
    IN  hits # {} /\ ~patterns[Max(hits)].is_negation

\* C29: ShouldIgnore(path) is true exactly when the last pattern of the list
\* that matches the path is not a '!' negation, and false when none matches;
\* a blank line or a '#' comment line anywhere in the list changes nothing;
\* FilterPaths returns the paths with ShouldIgnore false, in input order.
C29_LastMatchWins ==
    /\ \A q \in PatternPaths :
          /\ ShouldIgnore(ignore_rows, q) = LastMatchIgnores(ignore_rows, q)
          /\ \A k \in 0..Len(ignore_rows), extra \in SkippedLines :
                ShouldIgnore(InsertAt(ignore_rows, k, extra), q)
                    = ShouldIgnore(ignore_rows, q)
    /\ \A paths \in PathLists :
          FilterPaths(ignore_rows, paths)
              = (IF ShouldIgnore(ignore_rows, paths[1]) THEN <<>> ELSE <<paths[1]>>)
                \o (IF ShouldIgnore(ignore_rows, paths[2]) THEN <<>>
                    ELSE <<paths[2]>>)

\* the list is '*' followed by '!a': a is kept by the later negation, b is
\* ignored, and FilterPaths of b, a returns a alone
C29_Witness ==
    /\ ignore_rows = << <<"*">>, <<"!", "a">> >>
    /\ ~ShouldIgnore(ignore_rows, <<"a">>)
    /\ ShouldIgnore(ignore_rows, <<"b">>)
    /\ FilterPaths(ignore_rows, << <<"b">>, <<"a">> >>) = << <<"a">> >>

\* the directories above a path: what stands before one of its separators
LeadingDirectories(file_path) ==
    { SubSeq(file_path, 1, k - 1) : k \in { i \in 1..Len(file_path) : file_path[i] = "/" } }

\* the scope rule for one pattern (its trailing separators dropped) and path
InScope(file_path, pattern) ==
    IF Contains(pattern, "/")
    THEN \/ Fnmatch(file_path, pattern)
         \/ \E d \in LeadingDirectories(file_path) : Fnmatch(d, pattern)
    ELSE \E i \in 1..Len(Split(file_path, <<>>)) :
            Fnmatch(Split(file_path, <<>>)[i], pattern)

\* the scope rule for patterns that contain a separator
SlashPatternsInScope ==
    \A i \in 1..Len(ParsePatterns(ignore_rows)), q \in PatternPaths :
        LET pattern == RStrip(ParsePatterns(ignore_rows)[i].pattern, "/")
            file_path == NormalizePath(q)
        IN  Contains(pattern, "/") =>
              (MatchesPattern(file_path, ParsePatterns(ignore_rows)[i].pattern)
                 <=> InScope(file_path, pattern))

\* C30: a pattern without '/' matches a path exactly when it glob-matches a
\* whole '/'-separated component of the path; a pattern with '/' matches
\* exactly when it glob-matches the full path or a leading directory of it;
\* a pattern with a trailing '/' matches the directory and all below it.
C30_MatchingScope ==
    \A i \in 1..Len(ParsePatterns(ignore_rows)), q \in PatternPaths :
        LET raw == ParsePatterns(ignore_rows)[i].pattern
            file_path == NormalizePath(q)
        IN  MatchesPattern(file_path, raw) <=> InScope(file_path, RStrip(raw, "/"))

\* ------------------------------------------------- the server after an expiry
\* Clients call for a transaction only while its timeout has not elapsed;
\* other clients begin transactions and poll the lock status, which is the
\* one access to the lock that needs no transaction.
SweepBegin ==
    \E user_id \in Users :
        /\ StoreApply(begin_transaction(Server, user_id,
                          IF user_id = 1 THEN "Push" ELSE "Pull",
                          "Contemporary", <<>>, "none"))

SweepUpload ==
    \E transaction_id \in StoreTransactionIds, bytes \in Contents :
        /\ Live(transaction_id)
        /\ StoreApply(upload_file(Server, Owner(transaction_id), transaction_id,
                                  "a.txt", bytes))

SweepCommit ==
    \E transaction_id \in StoreTransactionIds :
        /\ Live(transaction_id)
        /\ StoreApply(commit_transaction(Server, Owner(transaction_id),
                                         transaction_id, NoFault))

SweepRollback ==
    \E transaction_id \in StoreTransactionIds :
        /\ Live(transaction_id)
        /\ StoreApply(rollback_transaction(Server, Owner(transaction_id),
                                           transaction_id, NoFault))

SweepLockStatus ==
    /\ StoreApply(get_lock_status(Server))

SweepNext ==
    \/ Tick
    \/ SweepBegin
    \/ SweepUpload
    \/ SweepCommit
    \/ SweepRollback
    \/ SweepLockStatus

\* time passes and the lock keeps being accessed; the server runs nothing
\* of its own between requests
SweepSpec ==
    Init /\ [][SweepNext]_vars /\ WF_vars(Tick) /\ WF_vars(SweepLockStatus)

ExpiredInMap(t) ==
    /\ t \in Begun
    /\ t \in DOMAIN active_transactions
    /\ Expired(t)

Swept(t) ==
    /\ t \in DOMAIN operations
    /\ t \notin DOMAIN active_transactions
    /\ t \notin DOMAIN staging
    /\ operations[t].status = "rolled_back"

\* C31: a transaction whose lock has expired and whose client makes no
\* further call is eventually removed from the active map, its staging
\* directory deleted and its Operation Record changed from 'active' to
\* 'rolled_back'.
C31_ExpirationSweep ==
    \A t \in StoreTransactionIds : ExpiredInMap(t) ~> Swept(t)

\* ------------------------------------------------- pruning alone
PruneMaxRevision == 4
PruneMaxSetting == 3

\* the rows and blobs of a.txt for a set of revision numbers
PruneRows(revisions) ==
    [k \in { <<"Contemporary", "a.txt", r>> : r \in revisions } |->
        [file_hash |-> CalculateFileHash(<<1>>), size |-> StatSize(<<1>>),
         is_deleted |-> FALSE, last_modified_utc |-> 0, user_id |-> 1,
         changelist_id |-> 1, revision |-> k[3]]]

PruneInit ==
    /\ now = 0
    /\ current_lock = NoLock
    /\ active_transactions = EmptyMap
    /\ staging = EmptyMap
    /\ operations = <<>>
    /\ \E revisions \in (SUBSET (0..PruneMaxRevision)) \ {{}} :
          /\ files = PruneRows(revisions)
          /\ blobs = [k \in DOMAIN PruneRows(revisions) |-> <<1>>]
    /\ changelists = <<[user_id |-> 1, operation_type |-> "Push"]>>
    /\ settings \in { [lock_timeout_seconds |-> MaxTimeout,
                        min_lock_timeout_seconds |-> MaxTimeout,
                        max_revisions |-> m] : m \in 0..PruneMaxSetting }
    /\ user_role \in RoleAssignments
    /\ begin_responses = EmptyMap
    /\ user_rows = SeededUsers
    /\ tokens = {}
    /\ ignore_rows = <<>>
    /\ propresenter_folder = EmptyMap
    /\ sync_operations = NewSyncOperations
    /\ upload_call = NoCall

PruneCleanup ==
    LET pruned == CleanupOldRevisions(files, blobs, "a.txt", "Contemporary",
                                      settings.max_revisions)
    IN  /\ files' = pruned.files
        /\ blobs' = pruned.blobs
        /\ UNCHANGED <<now, current_lock, active_transactions, staging,
                       operations, changelists, settings, user_role,
                       begin_responses, user_rows, tokens, ignore_rows,
          propresenter_folder, sync_operations, upload_call>>

PruneNext ==
    \/ PruneCleanup

PruneSpec == PruneInit /\ [][PruneNext]_vars

\* C32: for every max_revisions, 0 and 1 included, and every set of
\* revisions of a path, CleanupOldRevisions keeps the row and the blob of
\* the highest revision, and what it deletes are the lowest revisions:
\* every deleted number is below every surviving one.
C32_PruningKeepsCurrent ==
    LET before == RevisionsOf(files, "a.txt", "Contemporary")
        pruned == CleanupOldRevisions(files, blobs, "a.txt", "Contemporary",
                                      settings.max_revisions)
        after == RevisionsOf(pruned.files, "a.txt", "Contemporary")
        current == GetRevisionPath("a.txt", Max(before), "Contemporary")
    IN  before # {} =>
          /\ current \in DOMAIN pruned.files
          /\ current \in DOMAIN blobs => current \in DOMAIN pruned.blobs
          /\ \A d \in before \ after, k \in after : d < k

\* ------------------------------------------------- whose lock is released
\* the lock in force before and after a handler's outcome
LockInForce(lock) == GetCurrentLock(lock, now)

\* the lock in force was acquired by the begin of a transaction other than t
\* whose timeout has not elapsed
HeldByAnother(t) ==
    /\ LockTransaction # 0
    /\ LockTransaction # t
    /\ Live(LockTransaction)

\* C35: commit, rollback or admin cancel of a transaction T of the active map
\* leaves in force a lock that the begin of a different, live transaction
\* acquired.
C35_TerminalEventReleasesOwnLock ==
    \A t \in DOMAIN active_transactions :
        (t \in Begun /\ HeldByAnother(t)) =>
            /\ LockInForce(commit_transaction(Server, Owner(t), t, NoFault).srv.lock)
                  = LockInForce(current_lock)
            /\ LockInForce(rollback_transaction(Server, Owner(t), t, NoFault).srv.lock)
                  = LockInForce(current_lock)
            /\ LockInForce(admin_cancel_operation(Server, t).srv.lock)
                  = LockInForce(current_lock)

\* C36: a begin answered 500 leaves in force a lock held by another user's
\* live transaction; otherwise no lock is in force after it; and in both
\* cases the active map, the staging root and the begin responses are as
\* they were.
C36_FailedBeginFrame ==
    \A r \in BeginRequests :
        LET o == BeginOutcome(r)
        IN  o.resp.code = 500 =>
                /\ IF /\ LockTransaction # 0
                      /\ Live(LockTransaction)
                      /\ Owner(LockTransaction) # r.user_id
                   THEN LockInForce(o.srv.lock) = LockInForce(current_lock)
                   ELSE LockInForce(o.srv.lock) = NoLock
                /\ o.srv.txns = active_transactions
                /\ o.srv.staging = staging
                /\ o.srv.begun = begin_responses

\* ------------------------------------------------- the client
\* One run of SyncOperations.pull, push or reconcile is an operator from the
\* server's state, the client's folder and the SyncOperations object to what
\* the run leaves: the requests follow one another as the code sends them,
\* each answered by the server's handler.
ClientUser == 1
ClientService == "Contemporary"

\* a file of the folder: its bytes and its st_mtime.  The mtime is kept as
\* the reading datetime.fromtimestamp(st_mtime).isoformat() sends to the
\* server; os.utime(fromisoformat(modified_utc).timestamp()) sets that reading
\* to the server's value (both strings carry no timezone).
LocalFile(bytes, mtime) == [bytes |-> bytes, mtime |-> mtime]

\* what a run can meet at its request number `at`: "connection" (the request
\* does not reach the server: requests.ConnectionError), "timeout" (the
\* server handles the request and the answer does not arrive within the 30
\* seconds of _make_request: requests.Timeout), "corrupt" (the bytes of the
\* transfer arrive altered), "cancel" (cancel_operation has set
\* cancel_requested before the transfer); "disk_space": _check_disk_space
\* finds the folder's disk too small; "rmtree": shutil.rmtree of the backup
\* directory raises after the commit
ClientMaxRequests == 5
NoClientFault == [kind |-> "none", at |-> 0]
ClientFaults ==
    {NoClientFault}
    \cup [kind : {"connection", "timeout", "corrupt", "cancel"},
          at : 1..ClientMaxRequests]
    \cup {[kind |-> "disk_space", at |-> 0], [kind |-> "rmtree", at |-> 0]}

Corrupted(bytes) == Append(bytes, 9)

\* the state of a run
StartRun(s, folder, self) ==
    [srv |-> s, folder |-> folder, self |-> self, sent |-> <<>>,
     raised |-> "", result |-> FALSE]

FaultHere(c, fault, kind) == fault.kind = kind /\ fault.at = Len(c.sent) + 1

\* the value is computed once and named in the body
Bind(value, Body(_)) == CHOOSE y \in { Body(x) : x \in {value} } : TRUE

\* AlderSyncAPI._make_request: the request is recorded as sent; the answer o
\* of the handler becomes an exception for 401, for 409 with the error key
\* "transaction_cancelled_by_admin", and for every other code from 400 up
MakeRequest(c, fault, request, transaction_id, path, hash, o) ==
    LET unreached == FaultHere(c, fault, "connection")
        answered == ~unreached /\ ~FaultHere(c, fault, "timeout")
    IN  [c EXCEPT
           !.srv = IF unreached THEN c.srv ELSE o.srv,
           !.sent = Append(c.sent,
                       [request |-> request, transaction_id |-> transaction_id,
                        path |-> path, hash |-> hash,
                        code |-> IF unreached THEN 0 ELSE o.resp.code,
                        answered |-> answered]),
           !.raised =
               IF ~answered THEN "AlderSyncServerError"
               ELSE IF o.resp.code = 401 THEN "AlderSyncAuthError"
               ELSE IF o.resp.code = 409
                       /\ o.resp.error = "transaction_cancelled_by_admin"
               THEN "AlderSyncAdminCancelledError"
               ELSE IF o.resp.code >= 400 THEN "AlderSyncServerError"
               ELSE ""]

\* _create_backup: the files of files_to_backup that exist are copied
CreateBackup(c, files_to_backup) ==
    IF files_to_backup = {} THEN c
    ELSE [c EXCEPT
            !.self.backup_path = c.srv.now,
            !.self.backup = [p \in files_to_backup \cap DOMAIN c.folder |->
                                c.folder[p]]]

BackupExists(self) == self.backup_path # None /\ DOMAIN self.backup # {}

\* _restore_from_backup: every file of the backup is copied back and the
\* backup directory is removed
RestoreFromBackup(c) ==
    [c EXCEPT
       !.folder = [p \in DOMAIN c.folder \cup DOMAIN c.self.backup |->
                     IF p \in DOMAIN c.self.backup THEN c.self.backup[p]
                     ELSE c.folder[p]],
       !.self.backup = EmptyMap]

ClientRollback(c, fault) ==
    Bind(rollback_transaction(c.srv, ClientUser, c.self.transaction_id, NoFault),
         LAMBDA o : MakeRequest(c, fault, "rollback", c.self.transaction_id, "",
                                None, o))

\* `except AlderSyncAdminCancelledError`: local restore, nothing is sent
AdminCancelled(c) ==
    Bind(IF BackupExists(c.self) THEN RestoreFromBackup(c) ELSE c,
         LAMBDA restored :
            [restored EXCEPT !.self.transaction_id = None, !.result = FALSE])

\* `except Exception`: rollback if a transaction id is stored (an error of
\* the rollback is logged only), then local restore
Failed(c, fault) ==
    Bind(IF c.self.transaction_id # None THEN ClientRollback(c, fault) ELSE c,
         LAMBDA rolled :
    Bind(IF BackupExists(rolled.self) THEN RestoreFromBackup(rolled) ELSE rolled,
         LAMBDA restored :
            [restored EXCEPT !.self.transaction_id = None, !.result = FALSE,
                             !.raised = c.raised]))

\* the exception handlers of pull, push and reconcile
Except(c, fault) ==
    Bind(c, LAMBDA x :
        IF x.raised = "AlderSyncAdminCancelledError" THEN AdminCancelled(x)
        ELSE Failed(x, fault))

\* begin: the transaction id of the answer is stored
ClientBegin(c, fault, operation_type, client_files) ==
    Bind(begin_transaction(c.srv, ClientUser, operation_type, ClientService,
                           client_files, "none"),
         LAMBDA o :
    Bind(MakeRequest(c, fault, "begin", o.resp.transaction_id, "", None, o),
         LAMBDA c1 :
            IF c1.raised # "" THEN c1
            ELSE [c1 EXCEPT !.self.transaction_id = o.resp.transaction_id]))

\* tx_response.get("lock_acquired")
LockAcquired(c) ==
    /\ c.self.transaction_id \in DOMAIN c.srv.begun
    /\ c.srv.begun[c.self.transaction_id].lock_acquired

ClientCommit(c, fault) ==
    Bind(commit_transaction(c.srv, ClientUser, c.self.transaction_id, NoFault),
         LAMBDA o : MakeRequest(c, fault, "commit", c.self.transaction_id, "",
                                None, o))

\* the return after a commit: the backup is removed, the id cleared
Succeeded(c) ==
    [c EXCEPT !.self.transaction_id = None,
              !.self.backup_path =
                  IF BackupExists(c.self) THEN None ELSE c.self.backup_path,
              !.self.backup = EmptyMap,
              !.result = TRUE]

\* the commit at the end of pull and reconcile
CommitAndReturn(c, fault) ==
    Bind(ClientCommit(c, fault), LAMBDA c1 :
        IF c1.raised # "" THEN Except(c1, fault)
        ELSE IF fault.kind = "rmtree" /\ BackupExists(c1.self)
        THEN Except([c1 EXCEPT !.raised = "Exception"], fault)
        ELSE Succeeded(c1))

\* "Nothing to sync", and the end of push: commit, clear the id, return True
NothingToSync(c, fault) ==
    Bind(ClientCommit(c, fault), LAMBDA c1 :
        IF c1.raised # "" THEN Except(c1, fault)
        ELSE [c1 EXCEPT !.self.transaction_id = None, !.result = TRUE])

\* a comparison that accepts every hash
HashNeverChecked(expected_hash, received_hash) == TRUE

\* the hash comparison after a transfer
HashVerified(expected_hash, received_hash) == expected_hash = received_hash

\* what one download leaves: the hash is verified against the listed one (in
\* reconcile only if the path is listed), the file is written and its mtime
\* set to the listed one
Downloaded(c1, file_path, file_data, listed, t) ==
    IF c1.raised # "" THEN c1
    ELSE IF file_path \in DOMAIN listed
            /\ ~HashVerified(listed[file_path].hash, CalculateFileHash(file_data))
    THEN [c1 EXCEPT !.raised = "Exception"]
    ELSE [c1 EXCEPT
            !.folder = Put(c1.folder, file_path,
                           LocalFile(file_data,
                                     IF file_path \in DOMAIN listed
                                     THEN listed[file_path].modified_utc
                                     ELSE t))]

\* the download loop; listed: path -> the FileMetadata of list_files
RECURSIVE Downloads(_, _, _, _)
Downloads(c, fault, paths, listed) ==
    IF paths = <<>> \/ c.raised # "" THEN c
    ELSE IF FaultHere(c, fault, "cancel") THEN [c EXCEPT !.raised = "Exception"]
    ELSE
    Bind(download_file_in_transaction(c.srv, ClientUser, c.self.transaction_id,
                                      Head(paths)),
         LAMBDA o :
    Bind(IF FaultHere(c, fault, "corrupt") THEN Corrupted(o.resp.body)
         ELSE o.resp.body,
         LAMBDA file_data :
    Bind(Downloaded(MakeRequest(c, fault, "download", c.self.transaction_id,
                                Head(paths), CalculateFileHash(file_data), o),
                    Head(paths), file_data, listed, c.srv.now),
         LAMBDA c1 : Downloads(c1, fault, Tail(paths), listed))))

\* what one upload leaves: the answer's hash is compared with the hash of
\* the bytes read
Uploaded(c1, file_hash, o) ==
    IF c1.raised # "" THEN c1
    ELSE IF ~HashVerified(file_hash, o.resp.file_hash)
    THEN [c1 EXCEPT !.raised = "Exception"]
    ELSE c1

\* the upload loop: read the file, upload it, verify
RECURSIVE Uploads(_, _, _)
Uploads(c, fault, paths) ==
    IF paths = <<>> \/ c.raised # "" THEN c
    ELSE IF FaultHere(c, fault, "cancel") THEN [c EXCEPT !.raised = "Exception"]
    ELSE IF Head(paths) \notin DOMAIN c.folder
    THEN [c EXCEPT !.raised = "Exception"]
    ELSE
    Bind(c.folder[Head(paths)].bytes, LAMBDA file_data :
    Bind(upload_file(c.srv, ClientUser, c.self.transaction_id, Head(paths),
                     IF FaultHere(c, fault, "corrupt")
                     THEN Corrupted(file_data) ELSE file_data),
         LAMBDA o :
    Bind(Uploaded(MakeRequest(c, fault, "upload", c.self.transaction_id,
                              Head(paths), o.resp.file_hash, o),
                  CalculateFileHash(file_data), o),
         LAMBDA c1 : Uploads(c1, fault, Tail(paths)))))

\* "Insufficient disk space": rollback, clear the id, raise
InsufficientDiskSpace(c, fault) ==
    Bind(ClientRollback(c, fault), LAMBDA rolled :
        IF rolled.raised # "" THEN rolled
        ELSE [rolled EXCEPT !.self.transaction_id = None, !.raised = "Exception"])

\* the answer of list_files as a dictionary path -> metadata
FileMap(listing) ==
    [p \in { m.path : m \in listing } |->
        CHOOSE m \in listing : m.path = p]

ClientList(c, fault) ==
    Bind(list_files(c.srv, ClientService),
         LAMBDA o : MakeRequest(c, fault, "list", c.self.transaction_id, "",
                                None, o))

\* pull after list_files: the files to download are those absent from the
\* folder or of another hash; those present are backed up
PullListed(c2, fault, folder, server_files) ==
    Bind({ p \in DOMAIN server_files :
             \/ p \notin DOMAIN folder
             \/ CalculateFileHash(folder[p].bytes) # server_files[p].hash },
         LAMBDA files_to_download :
        IF files_to_download = {} THEN NothingToSync(c2, fault)
        ELSE IF fault.kind = "disk_space"
        THEN Except(InsufficientDiskSpace(c2, fault), fault)
        ELSE
        Bind(CreateBackup(c2, files_to_download \cap DOMAIN folder), LAMBDA c3 :
        Bind(Downloads(c3, fault, SetToSeq(files_to_download), server_files),
             LAMBDA c4 :
                IF c4.raised # "" THEN Except(c4, fault)
                ELSE CommitAndReturn(c4, fault))))

\* SyncOperations.pull
pull(s, folder, self, fault) ==
    Bind(ClientBegin(StartRun(s, folder, self), fault, "Pull", <<>>), LAMBDA c1 :
        IF c1.raised # "" THEN Except(c1, fault)
        ELSE IF ~LockAcquired(c1) THEN c1
        ELSE
        Bind(ClientList(c1, fault), LAMBDA c2 :
            IF c2.raised # "" THEN Except(c2, fault)
            ELSE
            Bind(FileMap(list_files(c1.srv, ClientService).resp.files),
                 LAMBDA server_files : PullListed(c2, fault, folder, server_files))))

\* push after list_files: the files to upload are those absent from the
\* server or of another hash; the deletions found are not sent (a TODO of
\* the code)
PushListed(c2, fault, folder, server_file_map) ==
    Bind({ p \in DOMAIN folder :
             \/ p \notin DOMAIN server_file_map
             \/ CalculateFileHash(folder[p].bytes) # server_file_map[p].hash },
         LAMBDA files_to_upload :
        IF files_to_upload \cup (DOMAIN server_file_map \ DOMAIN folder) = {}
        THEN NothingToSync(c2, fault)
        ELSE
        Bind(Uploads(c2, fault, SetToSeq(files_to_upload)), LAMBDA c3 :
            IF c3.raised # "" THEN Except(c3, fault)
            ELSE NothingToSync(c3, fault)))

\* SyncOperations.push
push(s, folder, self, fault) ==
    Bind(ClientBegin(StartRun(s, folder, self), fault, "Push", <<>>), LAMBDA c1 :
        IF c1.raised # "" THEN Except(c1, fault)
        ELSE IF ~LockAcquired(c1) THEN c1
        ELSE
        Bind(ClientList(c1, fault), LAMBDA c2 :
            IF c2.raised # "" THEN Except(c2, fault)
            ELSE
            Bind(FileMap(list_files(c1.srv, ClientService).resp.files),
                 LAMBDA server_file_map :
                    PushListed(c2, fault, folder, server_file_map))))

\* the inventory reconcile sends: one entry for each file of the folder
LocalInventory(folder) ==
    LET paths == SetToSeq(DOMAIN folder)
    IN  [i \in 1..Len(paths) |->
            [path |-> paths[i], modified_utc |-> folder[paths[i]].mtime,
             size |-> StatSize(folder[paths[i]].bytes),
             hash |-> CalculateFileHash(folder[paths[i]].bytes)]]

\* reconcile after list_files: the planned paths that exist in the folder
\* are backed up, the pulls are downloaded, the pushes uploaded
ReconcileListed(c2, fault, folder, transaction, server_file_map) ==
    IF fault.kind = "disk_space"
    THEN Except(InsufficientDiskSpace(c2, fault), fault)
    ELSE
    Bind(CreateBackup(c2,
            { p \in DOMAIN folder :
                \/ \E i \in 1..Len(transaction.files_to_pull) :
                      transaction.files_to_pull[i] = p
                \/ \E i \in 1..Len(transaction.files_to_push) :
                      transaction.files_to_push[i] = p }),
         LAMBDA c3 :
    Bind(Downloads(c3, fault, transaction.files_to_pull, server_file_map),
         LAMBDA c4 :
        IF c4.raised # "" THEN Except(c4, fault)
        ELSE
        Bind(Uploads(c4, fault, transaction.files_to_push), LAMBDA c5 :
            IF c5.raised # "" THEN Except(c5, fault)
            ELSE CommitAndReturn(c5, fault))))

\* reconcile after begin; the plan of the answer is the plan begin stored in
\* the transaction
ReconcileBegun(c1, fault, folder, transaction) ==
    IF transaction.files_to_pull \o transaction.files_to_push = <<>>
    THEN NothingToSync(c1, fault)
    ELSE
    Bind(ClientList(c1, fault), LAMBDA c2 :
        IF c2.raised # "" THEN Except(c2, fault)
        ELSE
        Bind(FileMap(list_files(c1.srv, ClientService).resp.files),
             LAMBDA server_file_map :
                ReconcileListed(c2, fault, folder, transaction, server_file_map)))

\* SyncOperations.reconcile
reconcile(s, folder, self, fault) ==
    Bind(ClientBegin(StartRun(s, folder, self), fault, "Reconcile",
                     LocalInventory(folder)),
         LAMBDA c1 :
        IF c1.raised # "" THEN Except(c1, fault)
        ELSE IF ~LockAcquired(c1) THEN c1
        ELSE
        Bind(GetTransaction(c1.srv.txns, c1.self.transaction_id),
             LAMBDA transaction : ReconcileBegun(c1, fault, folder, transaction)))

\* ------------------------------------------------- one client and the server
\* The client runs pull, push and reconcile one after another against the
\* server; between runs the user edits files of the folder and the clock
\* advances.
ClientMaxTime == 3
ClientMaxTxn == 1
ClientMaxRows == 3

\* the folders and the revision stores a behaviour starts from
ClientFolders ==
    { [p \in S |-> IF p = "a.txt" THEN LocalFile(<<1>>, 0) ELSE LocalFile(<<2>>, 1)] :
        S \in SUBSET Paths }

ClientRow(bytes, modified_utc) ==
    [file_hash |-> CalculateFileHash(bytes), size |-> StatSize(bytes),
     is_deleted |-> FALSE, last_modified_utc |-> modified_utc, user_id |-> 2,
     changelist_id |-> 1, revision |-> 0]

ClientStores ==
    { [k \in { <<ClientService, p, 0>> : p \in S } |-> ClientRow(<<1>>, 0)] :
        S \in SUBSET Paths }

ClientInit ==
    /\ now = 0
    /\ current_lock = NoLock
    /\ active_transactions = EmptyMap
    /\ staging = EmptyMap
    /\ operations = <<>>
    /\ files \in ClientStores
    /\ blobs = [k \in DOMAIN files |-> <<1>>]
    /\ changelists = <<[user_id |-> 2, operation_type |-> "Push"]>>
    /\ settings \in SettingsChoices
    /\ user_role \in RoleAssignments
    /\ begin_responses = EmptyMap
    /\ user_rows = SeededUsers
    /\ tokens = {}
    /\ ignore_rows = <<>>
    /\ propresenter_folder \in ClientFolders
    /\ sync_operations = NewSyncOperations
    /\ upload_call = NoCall

\* what a run leaves becomes the state, within the bounds
ClientApply(r) ==
    /\ Len(r.srv.ops) <= ClientMaxTxn
    /\ Cardinality(DOMAIN r.srv.files) <= ClientMaxRows
    /\ current_lock' = r.srv.lock
    /\ active_transactions' = r.srv.txns
    /\ staging' = r.srv.staging
    /\ operations' = r.srv.ops
    /\ files' = r.srv.files
    /\ blobs' = r.srv.blobs
    /\ changelists' = r.srv.cls
    /\ begin_responses' = r.srv.begun
    /\ propresenter_folder' = r.folder
    /\ sync_operations' = r.self
    /\ UNCHANGED <<now, settings, user_role, user_rows, tokens, ignore_rows,
                   upload_call>>

ClientPull ==
    \E fault \in ClientFaults :
        /\ ClientApply(pull(Server, propresenter_folder, sync_operations, fault))

ClientPush ==
    \E fault \in ClientFaults :
        /\ ClientApply(push(Server, propresenter_folder, sync_operations, fault))

ClientReconcile ==
    \E fault \in ClientFaults :
        /\ ClientApply(reconcile(Server, propresenter_folder, sync_operations, fault))

\* the user saves a file of the folder
ClientEdit ==
    \E p \in {"a.txt"} :
        /\ IF p \in DOMAIN propresenter_folder
           THEN propresenter_folder[p].bytes # <<2>> ELSE TRUE
        /\ propresenter_folder' = Put(propresenter_folder, p, LocalFile(<<2>>, now))
        /\ UNCHANGED <<now, current_lock, active_transactions, staging,
                       operations, files, blobs, changelists, settings,
                       user_role, begin_responses, user_rows, tokens,
                       ignore_rows, sync_operations, upload_call>>

ClientTick ==
    /\ now < ClientMaxTime
    /\ now' = now + 1
    /\ UNCHANGED <<current_lock, active_transactions, staging, operations, files,
                   blobs, changelists, settings, user_role, begin_responses,
                   user_rows, tokens, ignore_rows, propresenter_folder,
                   sync_operations, upload_call>>

ClientNext ==
    \/ ClientTick
    \/ ClientEdit
    \/ ClientPull
    \/ ClientPush
    \/ ClientReconcile

ClientSpec == ClientInit /\ [][ClientNext]_vars

\* the run of each operation from the present state
RunOf(operation, fault) ==
    CASE operation = "pull" ->
            pull(Server, propresenter_folder, sync_operations, fault)
      [] operation = "push" ->
            push(Server, propresenter_folder, sync_operations, fault)
      [] OTHER ->
            reconcile(Server, propresenter_folder, sync_operations, fault)

Distance(a, b) == IF a < b THEN b - a ELSE a - b

\* the requests of a kind a run sent with an answer of 200
Answered(r, request) ==
    { i \in 1..Len(r.sent) :
        /\ r.sent[i].request = request
        /\ r.sent[i].answered
        /\ r.sent[i].code = 200 }

\* C33: when a Reconcile run pushes a path whose server row is older than the
\* client's copy and commits, the last-modified time of the path's new row
\* is within one second of the modified time the client reported.
C33_PushedRowKeepsClientTime ==
    LET r == RunOf("reconcile", NoClientFault)
    IN  r.result =>
            \A i \in Answered(r, "upload") :
                LET p == r.sent[i].path
                    before == CurrentRecord(files, p, ClientService)
                    after == CurrentRecord(r.srv.files, p, ClientService)
                IN  (before # NoRow
                       /\ before.last_modified_utc < propresenter_folder[p].mtime)
                    => Distance(after.last_modified_utc,
                                propresenter_folder[p].mtime) <= 1

\* the plan a Reconcile begin returns for a folder
PlanFor(s, folder) ==
    LET o == begin_transaction(s, ClientUser, "Reconcile", ClientService,
                               LocalInventory(folder), "none")
    IN  [code |-> o.resp.code,
         plan |-> IF o.resp.code = 200
                  THEN [files_to_pull |->
                            o.srv.txns[o.resp.transaction_id].files_to_pull,
                        files_to_push |->
                            o.srv.txns[o.resp.transaction_id].files_to_push]
                  ELSE NoPlan]

\* C37: after a Reconcile run that met no fault and committed, a Reconcile
\* begin with the folder as the run left it is answered with empty
\* files_to_pull and empty files_to_push.
C37_ReconcileConverges ==
    LET r == RunOf("reconcile", NoClientFault)
    IN  r.result =>
            /\ PlanFor(r.srv, r.folder).code = 200
            /\ PlanFor(r.srv, r.folder).plan = NoPlan

\* a run sent a request of the kind for the transaction after position i
SentAfter(r, i, request) ==
    \E j \in (i + 1)..Len(r.sent) :
        /\ r.sent[j].request = request
        /\ r.sent[j].transaction_id = r.sent[i].transaction_id

SentCommit(r, transaction_id) ==
    \E j \in 1..Len(r.sent) :
        /\ r.sent[j].request = "commit"
        /\ r.sent[j].transaction_id = transaction_id

\* the uploads of a run whose answer carries another hash than that of the
\* file read from the folder
MismatchedUploads(r) ==
    { i \in Answered(r, "upload") :
        r.sent[i].hash # CalculateFileHash(propresenter_folder[r.sent[i].path].bytes) }

\* the hash list_files gives for a path
ListedHash(p) == CurrentRecord(files, p, ClientService).file_hash

\* the downloads of a run whose bytes have another hash than the listed one
MismatchedDownloads(r) ==
    { i \in Answered(r, "download") :
        /\ r.sent[i].path \in ListFiles(files, ClientService, FALSE)
        /\ r.sent[i].hash # ListedHash(r.sent[i].path) }

SameFile(fa, fb, p) ==
    IF p \in DOMAIN fa THEN p \in DOMAIN fb /\ fa[p].bytes = fb[p].bytes
    ELSE p \notin DOMAIN fb

\* C34: in every run of push and reconcile, after an upload answered with a
\* hash other than the client's the run sends no further upload, sends no
\* commit for the transaction and sends its rollback; in every run of pull
\* and reconcile, a download whose bytes do not have the listed hash leaves
\* the file of the folder as it was.
C34_HashVerification ==
    \A fault \in ClientFaults :
        /\ \A operation \in {"push", "reconcile"} :
              LET r == RunOf(operation, fault)
              IN  \A i \in MismatchedUploads(r) :
                      /\ ~SentAfter(r, i, "upload")
                      /\ ~SentCommit(r, r.sent[i].transaction_id)
                      /\ SentAfter(r, i, "rollback")
        /\ \A operation \in {"pull", "reconcile"} :
              LET r == RunOf(operation, fault)
              IN  \A i \in MismatchedDownloads(r) :
                      SameFile(r.folder, propresenter_folder, r.sent[i].path)

\* a push has met a corrupted upload and was rolled back, and from this
\* state a push whose first upload is corrupted rolls back again, and a pull
\* that receives corrupted bytes does not write them
C34_Witness ==
    /\ Len(operations) = 1
    /\ operations[1].status = "rolled_back"
    /\ operations[1].operation_type = "Push"
    /\ \E fault \in ClientFaults :
          /\ fault.kind = "corrupt"
          /\ MismatchedUploads(RunOf("push", fault)) # {}
    /\ \E fault \in ClientFaults :
          /\ fault.kind = "corrupt"
          /\ MismatchedDownloads(RunOf("pull", fault)) # {}

ClientOperations == {"pull", "push", "reconcile"}

\* the requests of a kind a run sent for a transaction
SentFor(r, request, transaction_id) ==
    { j \in 1..Len(r.sent) :
        /\ r.sent[j].request = request
        /\ r.sent[j].transaction_id = transaction_id }

\* the commits of a transaction the server carried out
CommitsDone(r, transaction_id) ==
    { j \in SentFor(r, "commit", transaction_id) : r.sent[j].code = 200 }

\* C39: in every run of pull, push and reconcile whose begin was answered
\* with a transaction id, the run has sent a commit or a rollback for that id
\* (or has met the admin-cancelled error), has not sent a rollback for a
\* transaction whose commit the server carried out, and leaves the stored
\* transaction_id cleared.
C39_ClientEndsWhatItBegan ==
    \A operation \in ClientOperations, fault \in ClientFaults :
        LET r == RunOf(operation, fault)
        IN  \A i \in Answered(r, "begin") :
                LET transaction_id == r.sent[i].transaction_id
                IN  /\ \/ SentFor(r, "commit", transaction_id) # {}
                       \/ SentFor(r, "rollback", transaction_id) # {}
                       \/ r.raised = "AlderSyncAdminCancelledError"
                    /\ ~(/\ CommitsDone(r, transaction_id) # {}
                         /\ SentFor(r, "rollback", transaction_id) # {})
                    /\ r.self.transaction_id = None

\* the downloads of a run that were written to the folder
WrittenDownloads(r, before) ==
    { i \in Answered(r, "download") :
        /\ r.sent[i].path \in DOMAIN r.folder \cup DOMAIN before
        /\ \/ r.sent[i].path \notin ListFiles(files, ClientService, FALSE)
           \/ r.sent[i].hash = ListedHash(r.sent[i].path) }

\* C40: a run of pull or reconcile that returns False after it has written a
\* download leaves the folder with the files it had before the run and
\* their contents.
C40_LocalRollback ==
    \A operation \in {"pull", "reconcile"}, fault \in ClientFaults :
        LET r == RunOf(operation, fault)
        IN  (~r.result /\ WrittenDownloads(r, propresenter_folder) # {}) =>
                \A p \in Paths : SameFile(r.folder, propresenter_folder, p)

\* ------------------------------------------------- an upload in chunks
\* upload_file is the one handler with a suspension point: `await
\* file.read(8192)` in its loop.  Between two reads the other handlers run.
\* The call's position is upload_call: the chunks still to read, and where
\* the file it holds open is ("staged": in the staging directory; "moved":
\* shutil.move renamed it into the store and the handle writes there;
\* "copied": shutil.move copied it to another filesystem and unlinked it;
\* "removed": rmtree unlinked it).
ChunkedFile == << <<2>>, <<3>> >>
WholeFile == <<1>>

\* upload_file up to its first read: the checks, mkdir and open(..., 'wb')
UploadOpened(s, user_id, transaction_id, path) ==
    LET transaction == GetTransaction(s.txns, transaction_id)
        dir == IF transaction_id \in DOMAIN s.staging
               THEN s.staging[transaction_id] ELSE EmptyMap
    IN
    IF transaction = NoTransaction
    THEN Outcome(Response(404, "Transaction not found"), s)
    ELSE IF IsTransactionCancelled(s, transaction_id)
    THEN Outcome(Response(409, "Operation cancelled by administrator"), s)
    ELSE IF transaction.user_id # user_id
    THEN Outcome(Response(403, "Cannot upload to transaction from another user"),
                 s)
    ELSE Outcome(Response(200, ""),
                 [s EXCEPT !.staging = Put(s.staging, transaction_id,
                                           Put(dir, path, <<>>))])

\* f.write(chunk): the bytes go where the open file is
ChunkWritten(s, call) ==
    LET chunk == Head(call.remaining)
    IN  IF call.file = "staged"
        THEN [s EXCEPT !.staging[call.transaction_id][call.path] = @ \o chunk]
        ELSE IF call.file = "moved" /\ call.storage_file_path \in DOMAIN s.blobs
        THEN [s EXCEPT !.blobs[call.storage_file_path] = @ \o chunk]
        ELSE s

\* the staged file is at its path
StagedFileExists(s, call) ==
    /\ call.transaction_id \in DOMAIN s.staging
    /\ call.path \in DOMAIN s.staging[call.transaction_id]

\* after the loop: CalculateFileHash and stat of the staged path (an
\* exception is answered 500), then transaction.uploaded_files.append(path)
\* on the Transaction object the call looked up at its start
UploadClosed(s, call) ==
    IF ~StagedFileExists(s, call)
    THEN Outcome(Response(500, "Failed to upload file"), s)
    ELSE Outcome([Response(200, "") EXCEPT
                     !.file_hash = CalculateFileHash(
                                      s.staging[call.transaction_id][call.path]),
                     !.size = StatSize(s.staging[call.transaction_id][call.path])],
                 IF call.transaction_id \in DOMAIN s.txns
                 THEN [s EXCEPT !.txns[call.transaction_id].uploaded_files =
                                    Append(@, call.path)]
                 ELSE s)

Suspended(call, transaction_id) ==
    call # NoCall /\ call.code = 0 /\ call.transaction_id = transaction_id

\* what a commit of the call's transaction does to the file the call holds
\* open: a path of uploaded_files is moved into the store, by rename or by
\* copy; any other staged file goes with rmtree
AfterCommit(s, call, mode) ==
    LET transaction == s.txns[call.transaction_id]
        stored == /\ \E i \in 1..Len(transaction.uploaded_files) :
                        transaction.uploaded_files[i] = call.path
                  /\ StagedFileExists(s, call)
    IN  IF stored
        THEN [call EXCEPT
                !.file = IF mode = "rename" THEN "moved" ELSE "copied",
                !.storage_file_path =
                    GetRevisionPath(call.path,
                        GetNextRevisionNumber(s.files, call.path,
                                              transaction.service_type),
                        transaction.service_type)]
        ELSE [call EXCEPT !.file = "removed"]

ChunkApply(o, call) ==
    /\ Len(o.srv.ops) <= StoreMaxTxn
    /\ \A t \in DOMAIN o.srv.txns :
          Len(o.srv.txns[t].uploaded_files) <= StoreMaxStaged
    /\ Cardinality(DOMAIN o.srv.files) <= StoreMaxRows
    /\ current_lock' = o.srv.lock
    /\ active_transactions' = o.srv.txns
    /\ staging' = o.srv.staging
    /\ operations' = o.srv.ops
    /\ files' = o.srv.files
    /\ blobs' = o.srv.blobs
    /\ changelists' = o.srv.cls
    /\ begin_responses' = o.srv.begun
    /\ upload_call' = call
    /\ UNCHANGED <<now, settings, user_role, user_rows, tokens, ignore_rows,
                   propresenter_folder, sync_operations>>

ChunkBegin ==
    /\ ChunkApply(begin_transaction(Server, ClientUser, "Push", ClientService,
                                    <<>>, "none"),
                  upload_call)

\* an upload of a file small enough to be read without suspension
ChunkUploadWhole ==
    \E transaction_id \in StoreTransactionIds :
        /\ ~Suspended(upload_call, transaction_id)
        /\ ChunkApply(upload_file(Server, ClientUser, transaction_id, "a.txt",
                                  WholeFile),
                      upload_call)

ChunkUploadStart ==
    \E transaction_id \in StoreTransactionIds :
        /\ upload_call = NoCall
        /\ UploadOpened(Server, ClientUser, transaction_id, "a.txt").resp.code = 200
        /\ ChunkApply(UploadOpened(Server, ClientUser, transaction_id, "a.txt"),
                      [NoCall EXCEPT !.transaction_id = transaction_id,
                                     !.user_id = ClientUser,
                                     !.path = "a.txt",
                                     !.remaining = ChunkedFile,
                                     !.file = "staged"])

ChunkRead ==
    /\ upload_call # NoCall
    /\ upload_call.code = 0
    /\ upload_call.remaining # <<>>
    /\ ChunkApply(Outcome(Response(0, ""), ChunkWritten(Server, upload_call)),
                  [upload_call EXCEPT !.remaining = Tail(@)])

ChunkEnd ==
    /\ upload_call # NoCall
    /\ upload_call.code = 0
    /\ upload_call.remaining = <<>>
    /\ ChunkApply(UploadClosed(Server, upload_call),
                  [upload_call EXCEPT
                      !.code = UploadClosed(Server, upload_call).resp.code])

ChunkCommit ==
    \E transaction_id \in StoreTransactionIds, mode \in {"rename", "copy"} :
        /\ ChunkApply(commit_transaction(Server, ClientUser, transaction_id,
                                         NoFault),
                      IF /\ Suspended(upload_call, transaction_id)
                         /\ transaction_id \in DOMAIN active_transactions
                      THEN AfterCommit(Server, upload_call, mode)
                      ELSE upload_call)

ChunkRollback ==
    \E transaction_id \in StoreTransactionIds :
        /\ ChunkApply(rollback_transaction(Server, ClientUser, transaction_id,
                                           NoFault),
                      IF /\ Suspended(upload_call, transaction_id)
                         /\ transaction_id \in DOMAIN active_transactions
                      THEN [upload_call EXCEPT !.file = "removed"]
                      ELSE upload_call)

ChunkAdminCancel ==
    \E transaction_id \in StoreTransactionIds :
        /\ ChunkApply(admin_cancel_operation(Server, transaction_id), upload_call)

ChunkNext ==
    \/ Tick
    \/ ChunkBegin
    \/ ChunkUploadWhole
    \/ ChunkUploadStart
    \/ ChunkRead
    \/ ChunkEnd
    \/ ChunkCommit
    \/ ChunkRollback
    \/ ChunkAdminCancel

ChunkSpec == Init /\ [][ChunkNext]_vars

\* a terminal event of its transaction ran while the call was suspended, and
\* the call has answered since
AnsweredAfterTerminalEvent ==
    /\ upload_call # NoCall
    /\ upload_call.code # 0
    /\ upload_call.file \in {"moved", "copied", "removed"}

\* the bodies the two uploads stage when they run to their end
CompleteBodies == {WholeFile, ChunkedFile[1] \o ChunkedFile[2]}

\* C38: after a commit, rollback or admin cancel of T that ran while an
\* upload to T was suspended between chunk reads, and after the upload has
\* answered: T's staging directory does not exist, the upload's answer is not
\* a success, and if the commit stored the path as a revision, the bytes the
\* commit recorded for it are those of a completely staged body.
C38_UploadVersusTerminalEvent ==
    AnsweredAfterTerminalEvent =>
        /\ upload_call.transaction_id \notin DOMAIN staging
        /\ upload_call.code # 200
        /\ (/\ upload_call.file \in {"moved", "copied"}
            /\ upload_call.storage_file_path \in DOMAIN files)
           => \E body \in CompleteBodies :
                 /\ files[upload_call.storage_file_path].file_hash
                       = CalculateFileHash(body)
                 /\ files[upload_call.storage_file_path].size = StatSize(body)

\* the first two parts of C38 alone: no staging directory, no success
UploadFailsAfterTerminalEvent ==
    AnsweredAfterTerminalEvent =>
        /\ upload_call.transaction_id \notin DOMAIN staging
        /\ upload_call.code # 200
====
